---- MODULE Spec2Model ----
(***************************************************************************)
(* CarShop monolith (src/app.py): the REST handlers for cars, clients,     *)
(* sellers and orders over a PostgreSQL store, one transaction per         *)
(* request on a connection of its own (READ COMMITTED).                    *)
(*                                                                         *)
(* A request is a process: it starts in a handler, runs the handler's SQL  *)
(* statements one by one, commits, closes its connection and is answered.  *)
(* Writes of an open transaction are kept in tx[r] and reach the tables at *)
(* commit; a row written by an open transaction is locked until that       *)
(* transaction ends.                                                       *)
(*                                                                         *)
(* Units: money is in cents (NUMERIC(12,2)); a price sent by a client is   *)
(* in thousandths, so that the rounding of the column is visible.          *)
(* Texts are sequences of one-character strings.                           *)
(***************************************************************************)
EXTENDS Integers, Sequences, FiniteSets, TLC

(* ---------- bounds ---------- *)
MaxCars    == 1   \* rows ever inserted into cars
MaxClients == 2   \* rows ever inserted into clients
MaxSellers == 2   \* rows ever inserted into sellers
MaxOrders  == 2   \* rows ever inserted into orders
MaxQty     == 2   \* largest quantity a client sends
InitStock  == 2   \* stock of the car of the provisioned store
MaxRuns    == 2   \* times the process is started
MaxPending == 2   \* requests of a page's form in flight at once

(* ---------- program constants ---------- *)
CPF_LEN == 11

\* Two request slots: at most two requests are in flight at once.
Req       == {1, 2}
CarIds    == 1..(MaxCars + 1)
ClientIds == 1..(MaxClients + 1)
SellerIds == 1..(MaxSellers + 1)

(* ---------- texts ---------- *)
Txt(ch, n) == [i \in 1..n |-> ch]

\* The character U+00B2 (superscript two), written as a token of its own.
SuperscriptTwo == "^2"

\* The characters of the inputs below that str.isdigit accepts: the decimal
\* digits, and the characters that Unicode gives the digit property without
\* their being decimal digits, such as the superscript digits.
DecimalDigits == {"0", "1", "2", "3", "4", "5", "6", "7", "8", "9"}
Digits == DecimalDigits \cup {SuperscriptTwo}
isdigit(ch) == ch \in Digits

Whitespace == {" "}

RECURSIVE lstrip(_)
lstrip(s) == IF s # <<>> /\ Head(s) \in Whitespace THEN lstrip(Tail(s)) ELSE s

RECURSIVE rstrip(_)
rstrip(s) == IF s # <<>> /\ s[Len(s)] \in Whitespace
             THEN rstrip(SubSeq(s, 1, Len(s) - 1)) ELSE s

strip(s) == rstrip(lstrip(s))

Contains(s, ch) == \E i \in 1..Len(s) : s[i] = ch

(* ---------- validation helpers ---------- *)
\* Each helper returns [status, value]: status 200 with the converted value,
\* or the status of the HTTPException it raises.
\* "".join(ch for ch in (value or "") if ch.isdigit())
cpf_digits(value) == SelectSeq(value, isdigit)

cpf_digits_or_400(value) ==
    IF Len(cpf_digits(value)) # CPF_LEN
    THEN [status |-> 400, detail |-> "CPF deve conter 11 digitos.", value |-> <<>>]
    ELSE [status |-> 200, detail |-> "", value |-> cpf_digits(value)]

\* A date text is [iso, y, m, d]: iso says that the text has the shape
\* digits-digits-digits that "%Y-%m-%d" matches; y, m, d are the numbers read.
IsLeap(y) == (y % 4 = 0 /\ y % 100 # 0) \/ y % 400 = 0
DaysIn(y, m) == IF m = 2 THEN (IF IsLeap(y) THEN 29 ELSE 28)
                ELSE IF m \in {4, 6, 9, 11} THEN 30 ELSE 31

parse_date_or_400(value) ==
    IF value.iso /\ value.y \in 1..9999 /\ value.m \in 1..12
       /\ value.d \in 1..DaysIn(value.y, value.m)
    THEN [status |-> 200, detail |-> "", value |-> <<value.y, value.m, value.d>>]
    ELSE [status |-> 400, detail |-> "data_nascimento invalida (use YYYY-MM-DD)",
          value |-> <<>>]

email_or_400(value) ==
    IF ~Contains(strip(value), "@") \/ ~Contains(strip(value), ".")
    THEN [status |-> 400, detail |-> "E-mail invalido.", value |-> <<>>]
    ELSE [status |-> 200, detail |-> "", value |-> strip(value)]

(* ---------- form fields and column types ---------- *)
\* An optional form field: given is FALSE when the request omits it.
Field(v)  == [given |-> TRUE, value |-> v]
Omitted(v) == [given |-> FALSE, value |-> v]
Form(f, default) == IF f.given THEN f.value ELSE default

\* NUMERIC(12,2): a value in thousandths is rounded to cents, ties away from 0.
Numeric2(thousandths) ==
    IF thousandths >= 0 THEN (thousandths + 5) \div 10
    ELSE -((5 - thousandths) \div 10)

(* ---------- inputs ---------- *)
CpfA  == Txt("1", 11)
CpfB  == Txt("2", 11)
\* "111.111.111-11": the punctuated form of CpfA
CpfAPunct == Txt("1", 3) \o <<".">> \o Txt("1", 3) \o <<".">> \o Txt("1", 3)
             \o <<"-">> \o Txt("1", 2)
CpfShort == Txt("1", 10)
CpfSuper == Txt(SuperscriptTwo, 11)
CpfInputs == {CpfA, CpfB, CpfAPunct, CpfShort}

DateOk      == [iso |-> TRUE, y |-> 2000, m |-> 2, d |-> 29]
DateNoDay   == [iso |-> TRUE, y |-> 2001, m |-> 2, d |-> 29]
DateInputs  == {DateOk, DateNoDay}

Nome        == <<"A", "n", "a">>
NomeInputs  == {Nome, <<" ">> \o Nome \o <<" ">>}

EmailOk     == <<"a", "@", "b", ".", "c">>
EmailNoDot  == <<"a", "@", "b">>
EmailInputs == {EmailOk, <<" ">> \o EmailOk, EmailNoDot}

Toyota      == <<"T", "o", "y", "o", "t", "a">>
\* "A\B": a brand with a backslash in it
BrandSlash  == <<"A", "\\", "B">>
BrandInputs == {Toyota, BrandSlash}
\* The brand filters: none, "", "toy", "AB", and each brand itself.
FilterInputs ==
    {Omitted(<<>>), Field(<<>>), Field(<<"t", "o", "y">>), Field(<<"A", "B">>)}
        \cup {Field(b) : b \in BrandInputs}

PriceInputs == {1000, 2505}     \* 1.000 and 2.505
QuantityInputs == (-1)..MaxQty
StatusInputs == {"Ativo"}
StatusValues == {"Ativo", "Inativo"}

CarForms ==
    [brand : {Toyota}, model : {"Corolla"}, year : {2020},
     color : {Omitted("")}, mileage_km : {Omitted(0)},
     price : PriceInputs,
     quantity : {Field(q) : q \in QuantityInputs} \cup {Omitted(0)},
     status : {Field(s) : s \in StatusInputs}]

(* ---------- state ---------- *)
VARIABLES
    cars,      \* table cars: id -> row (committed)
    clients,   \* table clients
    sellers,   \* table sellers
    orders,    \* table orders
    seq,       \* last value of each table's SERIAL sequence
    pc,        \* pc[r]: where request r is in its handler
    local,     \* local[r]: the handler's parameters and local variables
    tx,        \* tx[r]: rows written by r's open transaction
    conn,      \* requests whose connection is open
    resp,      \* resp[r]: the response of the handler, once it has one
    pre,       \* pre[r]: the tables as they were when r arrived
    catalog,   \* the databases, schemas and tables that exist on the server
    boot,      \* the process start: where storage provisioning is
    page       \* the page open in the browser and its script's state

vars == <<cars, clients, sellers, orders, seq, pc, local, tx, conn, resp, pre,
          catalog, boot, page>>

Tables == [cars |-> cars, clients |-> clients, sellers |-> sellers,
           orders |-> orders]
NoTables == [cars |-> <<>>, clients |-> <<>>, sellers |-> <<>>, orders |-> <<>>]

NoLocal == [op |-> "none"]
NoResp  == [status |-> 0, detail |-> "", id |-> 0, total_value |-> 0,
            remaining_stock |-> 0]
NoTx    == [cars |-> <<>>, clients |-> <<>>, sellers |-> <<>>, orders |-> <<>>,
            deleted |-> [cars |-> {}, clients |-> {}, sellers |-> {}]]

Ok(id)  == [NoResp EXCEPT !.status = 200, !.id = id]
Error(status, detail) == [NoResp EXCEPT !.status = status, !.detail = detail]

\* No page is open in a browser.
NoPage == [name |-> "none"]

(* ---------- the store ---------- *)
\* Rows of table tbl that request r's open transaction has written or deleted:
\* these rows are locked by r.
Written(r, tbl) == DOMAIN tx[r][tbl] \cup tx[r].deleted[tbl]

\* Row id of tbl is locked by a transaction other than r's.
LockedByOther(r, tbl, id) ==
    \E o \in Req \ {r} : id \in Written(o, tbl) /\ id \in DOMAIN Tables[tbl]

\* The table after the writes w and the deletions d are applied.
Apply(t, w, d) ==
    [i \in (DOMAIN t \cup DOMAIN w) \ d |-> IF i \in DOMAIN w THEN w[i] ELSE t[i]]

\* conn.commit(): the transaction's writes reach the tables.
Commit(r) ==
    /\ cars'    = Apply(cars, tx[r].cars, tx[r].deleted.cars)
    /\ clients' = Apply(clients, tx[r].clients, tx[r].deleted.clients)
    /\ sellers' = Apply(sellers, tx[r].sellers, tx[r].deleted.sellers)
    /\ orders'  = Apply(orders, tx[r].orders, {})
    /\ tx' = [tx EXCEPT ![r] = NoTx]

(* ---------- storage provisioning ---------- *)
\* PG_CONFIG["dbname"] and SCHEMA_NAME with their defaults.
TargetDb   == "carshop"
SchemaName == "carshop"

\* The columns that ensure_tables declares for each table.
DDL ==
    [cars    |-> <<"id", "brand", "model", "year", "color", "mileage_km",
                   "price", "quantity", "status">>,
     clients |-> <<"id", "nome", "cpf", "data_nascimento">>,
     sellers |-> <<"id", "nome", "email", "cpf">>,
     orders  |-> <<"id", "seller_id", "client_id", "car_id", "quantity",
                   "total_value", "created_at">>]

TableNames == <<"cars", "clients", "sellers", "orders">>

\* catalog.tables[n] is the column list of table n, <<>> when n does not exist.
NoTable == <<>>
Provisioned ==
    [databases |-> {"postgres", TargetDb}, schemas |-> {SchemaName},
     tables |-> DDL]

\* Variant: CREATE TABLE without IF NOT EXISTS fails on a table that exists.
create_table(c, name) ==
    IF c.tables[name] # NoTable
    THEN [error |-> TRUE, catalog |-> c]
    ELSE [error |-> FALSE,
          catalog |-> [c EXCEPT !.tables[name] = DDL[name]]]

\* CREATE TABLE IF NOT EXISTS "schema".name (...): a table that exists is left
\* as it is, with its rows.
create_table_if_not_exists(c, name) ==
    IF c.tables[name] # NoTable
    THEN [error |-> FALSE, catalog |-> c]
    ELSE [error |-> FALSE,
          catalog |-> [c EXCEPT !.tables[name] = DDL[name]]]

\* The statements of ensure_tables from the k-th on, in one transaction: the
\* first that fails aborts them all.
RECURSIVE CreateTables(_, _)
CreateTables(c, k) ==
    IF k > Len(TableNames) THEN [error |-> FALSE, catalog |-> c]
    ELSE LET one == create_table_if_not_exists(c, TableNames[k]) IN
         IF one.error THEN one ELSE CreateTables(one.catalog, k + 1)

\* boot: pc is the step of the start-up code that runs next ("serving" once
\* the application is up, "failed" when the process died), run counts the
\* process starts, exists is the row ensure_database fetched, before is the
\* store as the previous run left it.
Snapshot == [catalog |-> catalog, tables |-> Tables, seq |-> seq]
Serving ==
    [pc |-> "serving", run |-> 1, exists |-> FALSE,
     before |-> [catalog |-> Provisioned, tables |-> NoTables,
                 seq |-> [cars |-> 0, clients |-> 0, sellers |-> 0,
                          orders |-> 0]]]

BootTo(label) == boot' = [boot EXCEPT !.pc = label]

\* admin_conn = get_conn(dbname="postgres"); SELECT 1 FROM pg_database
ensure_database ==
    /\ boot.pc = "ensure_database"
    /\ boot' = [boot EXCEPT !.exists = TargetDb \in catalog.databases,
                            !.pc = "ensure_database_create"]
    /\ UNCHANGED <<cars, clients, sellers, orders, seq, pc, local, tx, conn,
                   resp, pre, catalog, page>>

\* if not exists: CREATE DATABASE; finally: admin_conn.close()
ensure_database_create ==
    /\ boot.pc = "ensure_database_create"
    /\ IF boot.exists
       THEN BootTo("ensure_schema") /\ UNCHANGED catalog
       ELSE IF TargetDb \in catalog.databases
       THEN BootTo("failed") /\ UNCHANGED catalog
       ELSE /\ catalog' = [catalog EXCEPT !.databases = @ \cup {TargetDb}]
            /\ BootTo("ensure_schema")
    /\ UNCHANGED <<cars, clients, sellers, orders, seq, pc, local, tx, conn,
                   resp, pre, page>>

\* conn = get_conn(); CREATE SCHEMA IF NOT EXISTS; commit; close
ensure_schema ==
    /\ boot.pc = "ensure_schema"
    /\ IF TargetDb \notin catalog.databases
       THEN BootTo("failed") /\ UNCHANGED catalog
       ELSE /\ catalog' = [catalog EXCEPT !.schemas = @ \cup {SchemaName}]
            /\ BootTo("ensure_tables")
    /\ UNCHANGED <<cars, clients, sellers, orders, seq, pc, local, tx, conn,
                   resp, pre, page>>

\* conn = get_conn(); four CREATE TABLE IF NOT EXISTS; commit; close
ensure_tables ==
    /\ boot.pc = "ensure_tables"
    /\ LET made == CreateTables(catalog, 1) IN
       IF TargetDb \notin catalog.databases
          \/ SchemaName \notin catalog.schemas \/ made.error
       THEN BootTo("failed") /\ UNCHANGED catalog
       ELSE catalog' = made.catalog /\ BootTo("serving")
    /\ UNCHANGED <<cars, clients, sellers, orders, seq, pc, local, tx, conn,
                   resp, pre, page>>

\* Variant: the error of a connection that fails is swallowed and the process
\* goes on to serve.
connect_fails_ignored ==
    /\ boot.pc \in {"ensure_database", "ensure_schema", "ensure_tables"}
    /\ BootTo("serving")
    /\ UNCHANGED <<cars, clients, sellers, orders, seq, pc, local, tx, conn,
                   resp, pre, catalog, page>>

\* psycopg2.connect raises in get_conn (the server cannot be reached): the
\* error leaves the module-level code, and the process ends before the lines
\* below the call are run.
connect_fails ==
    /\ boot.pc \in {"ensure_database", "ensure_schema", "ensure_tables"}
    /\ BootTo("failed")
    /\ UNCHANGED <<cars, clients, sellers, orders, seq, pc, local, tx, conn,
                   resp, pre, catalog, page>>

\* The process is started again: the module-level code runs from the top.
restart ==
    /\ boot.pc = "serving"
    /\ boot.run < MaxRuns
    /\ boot' = [pc |-> "ensure_database", run |-> boot.run + 1,
                exists |-> FALSE, before |-> Snapshot]
    /\ UNCHANGED <<cars, clients, sellers, orders, seq, pc, local, tx, conn,
                   resp, pre, catalog, page>>

Init ==
    /\ cars = <<>> /\ clients = <<>> /\ sellers = <<>> /\ orders = <<>>
    /\ seq = [cars |-> 0, clients |-> 0, sellers |-> 0, orders |-> 0]
    /\ pc = [r \in Req |-> "idle"]
    /\ local = [r \in Req |-> NoLocal]
    /\ tx = [r \in Req |-> NoTx]
    /\ conn = {}
    /\ resp = [r \in Req |-> NoResp]
    /\ pre = [r \in Req |-> NoTables]
    /\ catalog = Provisioned
    /\ boot = Serving
    /\ page = NoPage

\* A request arrives at handler op with the given parameters and locals.
Arrive(r, l) ==
    /\ boot.pc = "serving"
    /\ pc[r] = "idle"
    /\ local' = [local EXCEPT ![r] = l]
    /\ pre' = [pre EXCEPT ![r] = Tables]

\* get_conn(): a fresh connection for this request.
get_conn(r) == conn' = conn \cup {r}

\* raise HTTPException(status, detail) inside the handler's try block.
Raise(r, status, detail) ==
    /\ resp' = [resp EXCEPT ![r] = Error(status, detail)]
    /\ pc' = [pc EXCEPT ![r] = "finally"]

Goto(r, label) == pc' = [pc EXCEPT ![r] = label] /\ UNCHANGED resp

\* Variant: the connection is closed after the commit, not in a finally
\* block, so a request that raises leaves it open.
conn_close_after_commit(r) ==
    /\ pc[r] = "finally"
    /\ conn' = IF resp[r].status = 200 THEN conn \ {r} ELSE conn
    /\ tx' = [tx EXCEPT ![r] = NoTx]
    /\ pc' = [pc EXCEPT ![r] = "done"]
    /\ UNCHANGED <<cars, clients, sellers, orders, seq, local, resp, pre,
                   catalog, boot, page>>

\* finally: conn.close(). Closing a connection rolls back what it has not
\* committed.
conn_close(r) ==
    /\ pc[r] = "finally"
    /\ conn' = conn \ {r}
    /\ tx' = [tx EXCEPT ![r] = NoTx]
    /\ pc' = [pc EXCEPT ![r] = "done"]
    /\ UNCHANGED <<cars, clients, sellers, orders, seq, local, resp, pre,
                   catalog, boot, page>>

\* The response is sent and the slot is free for the next request.
respond(r) ==
    /\ pc[r] = "done"
    /\ pc' = [pc EXCEPT ![r] = "idle"]
    /\ local' = [local EXCEPT ![r] = NoLocal]
    /\ resp' = [resp EXCEPT ![r] = NoResp]
    /\ pre' = [pre EXCEPT ![r] = NoTables]
    /\ UNCHANGED <<cars, clients, sellers, orders, seq, tx, conn,
                   catalog, boot, page>>

(* ---------- cars ---------- *)
\* The row that create_car and update_car write from the form fields.
CarRow(form) ==
    [brand |-> form.brand, model |-> form.model, year |-> form.year,
     color |-> Form(form.color, ""), mileage_km |-> Form(form.mileage_km, 0),
     price |-> Numeric2(form.price), quantity |-> Form(form.quantity, 0),
     status |-> Form(form.status, "Ativo")]

Inserting(label) == Cardinality({o \in Req : pc[o] = label})

create_car(r, form) ==
    /\ seq.cars + Inserting("create_car_insert") < MaxCars
    /\ Arrive(r, [op |-> "create_car", form |-> form, new_id |-> 0])
    /\ get_conn(r)
    /\ Goto(r, "create_car_insert")
    /\ UNCHANGED <<cars, clients, sellers, orders, seq, tx,
                   catalog, boot, page>>

create_car_insert(r) ==
    /\ pc[r] = "create_car_insert"
    /\ LET new_id == seq.cars + 1 IN
        /\ seq' = [seq EXCEPT !.cars = new_id]
        /\ local' = [local EXCEPT ![r].new_id = new_id]
        /\ tx' = [tx EXCEPT ![r].cars = new_id :> CarRow(local[r].form)]
    /\ Goto(r, "create_car_commit")
    /\ UNCHANGED <<cars, clients, sellers, orders, conn, pre,
                   catalog, boot, page>>

create_car_commit(r) ==
    /\ pc[r] = "create_car_commit"
    /\ Commit(r)
    /\ resp' = [resp EXCEPT ![r] = Ok(local[r].new_id)]
    /\ pc' = [pc EXCEPT ![r] = "finally"]
    /\ UNCHANGED <<seq, local, conn, pre, catalog, boot, page>>

update_car(r, car_id, form) ==
    /\ Arrive(r, [op |-> "update_car", car_id |-> car_id, form |-> form])
    /\ get_conn(r)
    /\ Goto(r, "update_car_select")
    /\ UNCHANGED <<cars, clients, sellers, orders, seq, tx,
                   catalog, boot, page>>

\* Variant: the UPDATE runs without the SELECT before it.
update_car_no_select(r) ==
    /\ pc[r] = "update_car_select"
    /\ Goto(r, "update_car_update")
    /\ UNCHANGED <<cars, clients, sellers, orders, seq, local, tx, conn, pre,
                   catalog, boot, page>>

update_car_select(r) ==
    /\ pc[r] = "update_car_select"
    /\ IF local[r].car_id \notin DOMAIN cars
       THEN Raise(r, 404, "Car not found")
       ELSE Goto(r, "update_car_update")
    /\ UNCHANGED <<cars, clients, sellers, orders, seq, local, tx, conn, pre,
                   catalog, boot, page>>

\* UPDATE ... WHERE id = car_id: waits for the row's lock, then writes the row
\* if it is still there.
update_car_update(r) ==
    /\ pc[r] = "update_car_update"
    /\ ~LockedByOther(r, "cars", local[r].car_id)
    /\ tx' = IF local[r].car_id \in DOMAIN cars
             THEN [tx EXCEPT ![r].cars = local[r].car_id :> CarRow(local[r].form)]
             ELSE tx
    /\ Goto(r, "update_car_commit")
    /\ UNCHANGED <<cars, clients, sellers, orders, seq, local, conn, pre,
                   catalog, boot, page>>

update_car_commit(r) ==
    /\ pc[r] = "update_car_commit"
    /\ Commit(r)
    /\ resp' = [resp EXCEPT ![r] = Ok(0)]
    /\ pc' = [pc EXCEPT ![r] = "finally"]
    /\ UNCHANGED <<seq, local, conn, pre, catalog, boot, page>>

delete_car(r, car_id) ==
    /\ Arrive(r, [op |-> "delete_car", car_id |-> car_id])
    /\ get_conn(r)
    /\ Goto(r, "delete_car_delete")
    /\ UNCHANGED <<cars, clients, sellers, orders, seq, tx,
                   catalog, boot, page>>

delete_car_delete(r) ==
    /\ pc[r] = "delete_car_delete"
    /\ ~LockedByOther(r, "cars", local[r].car_id)
    /\ tx' = IF local[r].car_id \in DOMAIN cars
             THEN [tx EXCEPT ![r].deleted.cars = {local[r].car_id}]
             ELSE tx
    /\ Goto(r, "delete_car_commit")
    /\ UNCHANGED <<cars, clients, sellers, orders, seq, local, conn, pre,
                   catalog, boot, page>>

\* Variant: deleting a car also deletes the orders for it.
delete_car_commit_cascade(r) ==
    /\ pc[r] = "delete_car_commit"
    /\ cars' = Apply(cars, tx[r].cars, tx[r].deleted.cars)
    /\ orders' = [i \in {j \in DOMAIN orders :
                            orders[j].car_id \notin tx[r].deleted.cars}
                    |-> orders[i]]
    /\ tx' = [tx EXCEPT ![r] = NoTx]
    /\ resp' = [resp EXCEPT ![r] = Ok(0)]
    /\ pc' = [pc EXCEPT ![r] = "finally"]
    /\ UNCHANGED <<clients, sellers, seq, local, conn, pre,
                   catalog, boot, page>>

delete_car_commit(r) ==
    /\ pc[r] = "delete_car_commit"
    /\ Commit(r)
    /\ resp' = [resp EXCEPT ![r] = Ok(0)]
    /\ pc' = [pc EXCEPT ![r] = "finally"]
    /\ UNCHANGED <<seq, local, conn, pre, catalog, boot, page>>

(* ---------- orders ---------- *)
\* Variant: the check lets a quantity of zero through.
Negative(quantity) == quantity < 0

\* if quantity <= 0: raise 400
NotPositive(quantity) == quantity <= 0

\* Variant: the check also refuses an order for the whole stock.
StockNotAbove(car_quantity, quantity) == car_quantity <= quantity

\* Variant: the stock is not checked.
NeverInsufficient(car_quantity, quantity) == FALSE

\* if car_quantity < quantity: raise 400
InsufficientStock(car_quantity, quantity) == car_quantity < quantity

\* Variant: the total is the unit price.
UnitPriceOnly(car_price, quantity) == Numeric2(car_price * 10)

\* total_value = car_price * quantity, stored in NUMERIC(12,2). The product of
\* the float price and the integer quantity differs from the exact product by
\* far less than half a cent, so the column holds the exact product in cents.
\* (The prices and quantities used here stay far below the 10^10 limit of the
\* column, above which the INSERT fails.)
TotalValue(car_price, quantity) == Numeric2(car_price * quantity * 10)

\* Variant: the stock goes down by one unit whatever the quantity sold.
DecrementByOne(stock, quantity) == stock - 1

\* SET quantity = quantity - %s
Decrement(stock, quantity) == stock - quantity

\* Requests that will still take a value of the orders sequence.
OrdersToInsert ==
    Cardinality({o \in Req : pc[o] \in {"create_order_select_seller",
        "create_order_select_client", "create_order_select_car",
        "create_order_insert"}})

create_order(r, seller_id, client_id, car_id, quantity) ==
    /\ seq.orders + OrdersToInsert < MaxOrders
    /\ Arrive(r, [op |-> "create_order", seller_id |-> seller_id,
                  client_id |-> client_id, car_id |-> car_id,
                  quantity |-> quantity, car_quantity |-> 0, car_price |-> 0,
                  total_value |-> 0, new_id |-> 0])
    /\ IF NotPositive(quantity)
       THEN /\ resp' = [resp EXCEPT ![r] = Error(400, "Quantidade deve ser positiva.")]
            /\ pc' = [pc EXCEPT ![r] = "done"]
            /\ UNCHANGED conn
       ELSE /\ get_conn(r)
            /\ Goto(r, "create_order_select_seller")
    /\ UNCHANGED <<cars, clients, sellers, orders, seq, tx,
                   catalog, boot, page>>

\* Variant: the seller is not looked up.
create_order_skip_seller(r) ==
    /\ pc[r] = "create_order_select_seller"
    /\ Goto(r, "create_order_select_client")
    /\ UNCHANGED <<cars, clients, sellers, orders, seq, local, tx, conn, pre,
                   catalog, boot, page>>

create_order_select_seller(r) ==
    /\ pc[r] = "create_order_select_seller"
    /\ IF local[r].seller_id \notin DOMAIN sellers
       THEN Raise(r, 404, "Vendedor nao encontrado.")
       ELSE Goto(r, "create_order_select_client")
    /\ UNCHANGED <<cars, clients, sellers, orders, seq, local, tx, conn, pre,
                   catalog, boot, page>>

create_order_select_client(r) ==
    /\ pc[r] = "create_order_select_client"
    /\ IF local[r].client_id \notin DOMAIN clients
       THEN Raise(r, 404, "Cliente nao encontrado.")
       ELSE Goto(r, "create_order_select_car")
    /\ UNCHANGED <<cars, clients, sellers, orders, seq, local, tx, conn, pre,
                   catalog, boot, page>>

\* Variant: a car that is not active cannot be ordered.
create_order_select_car_active(r) ==
    /\ pc[r] = "create_order_select_car"
    /\ IF local[r].car_id \notin DOMAIN cars
       THEN /\ Raise(r, 404, "Carro nao encontrado.")
            /\ UNCHANGED local
       ELSE LET row == cars[local[r].car_id] IN
            /\ local' = [local EXCEPT
                   ![r].car_quantity = row.quantity,
                   ![r].car_price = row.price,
                   ![r].total_value =
                       IF InsufficientStock(row.quantity, local[r].quantity)
                       THEN 0 ELSE TotalValue(row.price, local[r].quantity)]
            /\ IF row.status # "Ativo"
               THEN Raise(r, 400, "Carro inativo.")
               ELSE IF InsufficientStock(row.quantity, local[r].quantity)
               THEN Raise(r, 400, "Estoque insuficiente para o carro selecionado.")
               ELSE Goto(r, "create_order_insert")
    /\ UNCHANGED <<cars, clients, sellers, orders, seq, tx, conn, pre,
                   catalog, boot, page>>

\* Variant: an order for more than the stock takes what is left of it before
\* it is refused.
create_order_select_car_take_rest(r) ==
    /\ pc[r] = "create_order_select_car"
    /\ IF local[r].car_id \notin DOMAIN cars
       THEN /\ Raise(r, 404, "Carro nao encontrado.")
            /\ UNCHANGED <<local, cars>>
       ELSE LET row == cars[local[r].car_id] IN
            /\ local' = [local EXCEPT
                   ![r].car_quantity = row.quantity,
                   ![r].car_price = row.price,
                   ![r].total_value =
                       IF InsufficientStock(row.quantity, local[r].quantity)
                       THEN 0 ELSE TotalValue(row.price, local[r].quantity)]
            /\ IF InsufficientStock(row.quantity, local[r].quantity)
               THEN /\ Raise(r, 400, "Estoque insuficiente para o carro selecionado.")
                    /\ cars' = [cars EXCEPT ![local[r].car_id].quantity = 0]
               ELSE /\ Goto(r, "create_order_insert")
                    /\ UNCHANGED cars
    /\ UNCHANGED <<clients, sellers, orders, seq, tx, conn, pre,
                   catalog, boot, page>>

\* SELECT id, quantity, price, then the stock check and the total.
create_order_select_car(r) ==
    /\ pc[r] = "create_order_select_car"
    /\ IF local[r].car_id \notin DOMAIN cars
       THEN /\ Raise(r, 404, "Carro nao encontrado.")
            /\ UNCHANGED local
       ELSE LET row == cars[local[r].car_id] IN
            /\ local' = [local EXCEPT
                   ![r].car_quantity = row.quantity,
                   ![r].car_price = row.price,
                   ![r].total_value =
                       IF InsufficientStock(row.quantity, local[r].quantity)
                       THEN 0 ELSE TotalValue(row.price, local[r].quantity)]
            /\ IF InsufficientStock(row.quantity, local[r].quantity)
               THEN Raise(r, 400, "Estoque insuficiente para o carro selecionado.")
               ELSE Goto(r, "create_order_insert")
    /\ UNCHANGED <<cars, clients, sellers, orders, seq, tx, conn, pre,
                   catalog, boot, page>>

create_order_insert(r) ==
    /\ pc[r] = "create_order_insert"
    /\ LET new_id == seq.orders + 1 IN
        /\ seq' = [seq EXCEPT !.orders = new_id]
        /\ local' = [local EXCEPT ![r].new_id = new_id]
        /\ tx' = [tx EXCEPT ![r].orders = new_id :>
                    [seller_id |-> local[r].seller_id,
                     client_id |-> local[r].client_id,
                     car_id |-> local[r].car_id,
                     quantity |-> local[r].quantity,
                     total_value |-> local[r].total_value]]
    /\ Goto(r, "create_order_update")
    /\ UNCHANGED <<cars, clients, sellers, orders, conn, pre,
                   catalog, boot, page>>

\* Variant: the UPDATE writes the quantity that the SELECT read, less the
\* quantity sold.
create_order_update_from_read(r) ==
    /\ pc[r] = "create_order_update"
    /\ ~LockedByOther(r, "cars", local[r].car_id)
    /\ tx' = IF local[r].car_id \in DOMAIN cars
             THEN [tx EXCEPT ![r].cars = local[r].car_id :>
                    [cars[local[r].car_id] EXCEPT
                        !.quantity = Decrement(local[r].car_quantity,
                                               local[r].quantity)]]
             ELSE tx
    /\ Goto(r, "create_order_commit")
    /\ UNCHANGED <<cars, clients, sellers, orders, seq, local, conn, pre,
                   catalog, boot, page>>

\* UPDATE cars SET quantity = quantity - %s WHERE id = %s: waits for the row's
\* lock, then decrements the quantity the row has at that moment.
create_order_update(r) ==
    /\ pc[r] = "create_order_update"
    /\ ~LockedByOther(r, "cars", local[r].car_id)
    /\ tx' = IF local[r].car_id \in DOMAIN cars
             THEN [tx EXCEPT ![r].cars = local[r].car_id :>
                    [cars[local[r].car_id] EXCEPT
                        !.quantity = Decrement(@, local[r].quantity)]]
             ELSE tx
    /\ Goto(r, "create_order_commit")
    /\ UNCHANGED <<cars, clients, sellers, orders, seq, local, conn, pre,
                   catalog, boot, page>>

\* Variant: the response reports the stock that the SELECT read.
create_order_commit_stock_read(r) ==
    /\ pc[r] = "create_order_commit"
    /\ Commit(r)
    /\ resp' = [resp EXCEPT ![r] =
                 [Ok(local[r].new_id) EXCEPT
                    !.total_value = local[r].total_value,
                    !.remaining_stock = local[r].car_quantity]]
    /\ pc' = [pc EXCEPT ![r] = "finally"]
    /\ UNCHANGED <<seq, local, conn, pre, catalog, boot, page>>

\* conn.commit() and the response; remaining_stock is computed from the
\* quantity that the SELECT read.
create_order_commit(r) ==
    /\ pc[r] = "create_order_commit"
    /\ Commit(r)
    /\ resp' = [resp EXCEPT ![r] =
                 [Ok(local[r].new_id) EXCEPT
                    !.total_value = local[r].total_value,
                    !.remaining_stock = local[r].car_quantity - local[r].quantity]]
    /\ pc' = [pc EXCEPT ![r] = "finally"]
    /\ UNCHANGED <<seq, local, conn, pre, catalog, boot, page>>

(* ---------- list_orders ---------- *)
\* ORDER BY o.id DESC
RECURSIVE Descending(_)
Descending(ids) ==
    IF ids = {} THEN <<>>
    ELSE LET m == CHOOSE m \in ids : \A j \in ids : j <= m IN
         <<m>> \o Descending(ids \ {m})

\* FROM orders o JOIN sellers s ON ... JOIN clients c ON ... JOIN cars car ON
\* ...: the orders whose seller, client and car rows all exist.
Joined(t) ==
    {i \in DOMAIN t.orders :
        /\ t.orders[i].seller_id \in DOMAIN t.sellers
        /\ t.orders[i].client_id \in DOMAIN t.clients
        /\ t.orders[i].car_id \in DOMAIN t.cars}

\* Variant: the entry shows the unit price that the order was made at.
OrderEntryAtSale(t, i) ==
    LET o == t.orders[i] IN
    [id |-> i, car_id |-> o.car_id,
     car_description |-> <<t.cars[o.car_id].brand, t.cars[o.car_id].model>>,
     car_price |-> o.total_value \div o.quantity,
     quantity |-> o.quantity, total_value |-> o.total_value,
     seller_id |-> o.seller_id, seller |-> t.sellers[o.seller_id].nome,
     client_id |-> o.client_id, client |-> t.clients[o.client_id].nome]

\* One entry of the list (created_at is left out: the model has no clock).
OrderEntry(t, i) ==
    LET o == t.orders[i] IN
    [id |-> i, car_id |-> o.car_id,
     car_description |-> <<t.cars[o.car_id].brand, t.cars[o.car_id].model>>,
     car_price |-> t.cars[o.car_id].price,
     quantity |-> o.quantity, total_value |-> o.total_value,
     seller_id |-> o.seller_id, seller |-> t.sellers[o.seller_id].nome,
     client_id |-> o.client_id, client |-> t.clients[o.client_id].nome]

list_orders_result(t) ==
    LET ids == Descending(Joined(t)) IN
    [k \in 1..Len(ids) |-> OrderEntry(t, ids[k])]

list_orders(r) ==
    /\ Arrive(r, [op |-> "list_orders", result |-> <<>>])
    /\ get_conn(r)
    /\ Goto(r, "list_orders_select")
    /\ UNCHANGED <<cars, clients, sellers, orders, seq, tx,
                   catalog, boot, page>>

\* The SELECT, and the list that the handler returns (local[r].result).
list_orders_select(r) ==
    /\ pc[r] = "list_orders_select"
    /\ local' = [local EXCEPT ![r].result = list_orders_result(Tables)]
    /\ resp' = [resp EXCEPT ![r] = Ok(0)]
    /\ pc' = [pc EXCEPT ![r] = "finally"]
    /\ UNCHANGED <<cars, clients, sellers, orders, seq, tx, conn, pre,
                   catalog, boot, page>>

(* ---------- list_cars ---------- *)
\* The lower-case form of the letters of the inputs; ILIKE compares texts
\* without regard to case.
Upper == <<"A", "B", "T">>
Lower == <<"a", "b", "t">>
lower(ch) ==
    IF \E k \in 1..Len(Upper) : Upper[k] = ch
    THEN Lower[CHOOSE k \in 1..Len(Upper) : Upper[k] = ch]
    ELSE ch
lower_text(s) == [k \in 1..Len(s) |-> lower(s[k])]

\* Variant: the text contains the filter as a substring.
RECURSIVE Substring(_, _)
Substring(s, p) ==
    \/ (Len(p) <= Len(s) /\ SubSeq(s, 1, Len(p)) = p)
    \/ (s # <<>> /\ Substring(Tail(s), p))

\* s LIKE p: % matches any text, _ any character, and a backslash makes the
\* character after it stand for itself.
RECURSIVE Like(_, _)
Like(s, p) ==
    IF p = <<>> THEN s = <<>>
    ELSE IF Head(p) = "%"
    THEN Like(s, Tail(p)) \/ (s # <<>> /\ Like(Tail(s), p))
    ELSE IF Head(p) = "_"
    THEN s # <<>> /\ Like(Tail(s), Tail(p))
    ELSE IF Head(p) = "\\"
    THEN /\ Len(p) >= 2 /\ s # <<>> /\ Head(s) = p[2]
         /\ Like(Tail(s), Tail(Tail(p)))
    ELSE s # <<>> /\ Head(s) = Head(p) /\ Like(Tail(s), Tail(p))

\* Variant: brand is matched as a substring, whatever characters it has.
BrandContains(value, brand) ==
    Substring(lower_text(value), lower_text(brand))

\* WHERE brand ILIKE %s, with the parameter f"%{brand}%"
BrandILike(value, brand) ==
    Like(lower_text(value), <<"%">> \o lower_text(brand) \o <<"%">>)

\* The rows that the SELECT of list_cars returns for the brand parameter.
CarsSelected(t, brand) ==
    IF brand.given /\ brand.value # <<>>
    THEN {i \in DOMAIN t : BrandILike(t[i].brand, brand.value)}
    ELSE DOMAIN t

CarEntry(t, i) ==
    [id |-> i, brand |-> t[i].brand, model |-> t[i].model, year |-> t[i].year,
     color |-> t[i].color, mileage_km |-> t[i].mileage_km,
     price |-> t[i].price, quantity |-> t[i].quantity,
     status |-> IF t[i].status = "" THEN "Ativo" ELSE t[i].status]

list_cars_result(t, brand) ==
    LET ids == Descending(CarsSelected(t, brand)) IN
    [k \in 1..Len(ids) |-> CarEntry(t, ids[k])]

list_cars(r, brand) ==
    /\ Arrive(r, [op |-> "list_cars", brand |-> brand, result |-> <<>>])
    /\ get_conn(r)
    /\ Goto(r, "list_cars_select")
    /\ UNCHANGED <<cars, clients, sellers, orders, seq, tx, catalog, boot, page>>

\* The SELECT, and the list that the handler returns (local[r].result).
list_cars_select(r) ==
    /\ pc[r] = "list_cars_select"
    /\ local' = [local EXCEPT
                   ![r].result = list_cars_result(cars, local[r].brand)]
    /\ resp' = [resp EXCEPT ![r] = Ok(0)]
    /\ pc' = [pc EXCEPT ![r] = "finally"]
    /\ UNCHANGED <<cars, clients, sellers, orders, seq, tx, conn, pre,
                   catalog, boot, page>>

(* ---------- the sales page ---------- *)
\* loadCarsForOrder: the cars that the selector of the sales page offers, out
\* of the list that GET /api/cars returned.
loadCarsForOrder(list) ==
    SelectSeq(list, LAMBDA c : c.status = "Ativo" /\ c.quantity > 0)

(* ---------- the cars, clients and sellers pages ---------- *)
\* The three page scripts have the same shape: a form with a hidden id field
\* (carId, clientId, sellerId), a table with an edit button per row, and a
\* submit handler. page is
\*   name    the page: "cars", "clients" or "sellers"
\*   id      the hidden id field, 0 when it is empty
\*   form    what the visible fields hold: "empty", "filled" (validateForm
\*           accepts them) or "invalid"
\*   fetches the requests that the submit handler has sent and that are not
\*           answered yet, each [method, id]
\*   edits   the ids whose edit button was clicked and whose list is awaited
\*   loads   the list requests of loadCars/loadClients/loadSellers in flight
\*   rows    the ids of the rows that the table shows
\*   last    the last thing that happened to the form (kept for the
\*           properties; the script does not have it)
PageNames == {"cars", "clients", "sellers"}
RowIds == {1, 2}
\* The statuses that a handler of the server can answer.
HttpStatuses == {200, 400, 404, 409, 500}

Remove(q, k) == [i \in 1..(Len(q) - 1) |-> IF i < k THEN q[i] ELSE q[i + 1]]

\* The browser requests the page; its script ends with a call of loadCars
\* (loadClients, loadSellers).
open_page(name) ==
    /\ boot.pc = "serving"
    /\ page = NoPage
    /\ page' = [name |-> name, id |-> 0, form |-> "empty", fetches |-> <<>>,
                edits |-> {}, loads |-> 1, rows |-> {},
                last |-> [kind |-> "open"]]
    /\ UNCHANGED <<cars, clients, sellers, orders, seq, pc, local, tx, conn,
                   resp, pre, catalog, boot>>

\* The user types in the fields of the form.
input(form) ==
    /\ page # NoPage
    /\ page.form # form
    /\ page' = [page EXCEPT !.form = form]
    /\ UNCHANGED <<cars, clients, sellers, orders, seq, pc, local, tx, conn,
                   resp, pre, catalog, boot>>

\* submit, when validateForm() is false: the handler returns.
submit_invalid ==
    /\ page # NoPage
    /\ page.form # "filled"
    /\ page' = [page EXCEPT !.last = [kind |-> "invalid"]]
    /\ UNCHANGED <<cars, clients, sellers, orders, seq, pc, local, tx, conn,
                   resp, pre, catalog, boot>>

\* submit, when validateForm() is true: PUT to the id of the hidden field if
\* it has one, POST otherwise; the handler then awaits the answer.
submit ==
    /\ page # NoPage
    /\ page.form = "filled"
    /\ Len(page.fetches) < MaxPending
    /\ page' = [page EXCEPT
                  !.fetches = Append(@,
                      [method |-> IF page.id # 0 THEN "PUT" ELSE "POST",
                       id |-> page.id]),
                  !.last = [kind |-> "submit"]]
    /\ UNCHANGED <<cars, clients, sellers, orders, seq, pc, local, tx, conn,
                   resp, pre, catalog, boot>>

\* Variant: the form is cleared on success only.
submit_answered_ok(k, status) ==
    /\ page # NoPage
    /\ k \in 1..Len(page.fetches)
    /\ page' = [page EXCEPT
                  !.fetches = Remove(@, k),
                  !.id = IF status = 200 THEN 0 ELSE @,
                  !.form = IF status = 200 THEN "empty" ELSE @,
                  !.loads = IF @ < MaxPending THEN @ + 1 ELSE @,
                  !.last = [kind |-> "answer"]]
    /\ UNCHANGED <<cars, clients, sellers, orders, seq, pc, local, tx, conn,
                   resp, pre, catalog, boot>>

\* The rest of the submit handler, after await fetch(...): the answer's
\* status is not looked at. The id field is emptied, the form is reset and
\* the list is requested (lists requested beyond MaxPending bring nothing
\* that the ones in flight do not).
submit_answered(k, status) ==
    /\ page # NoPage
    /\ k \in 1..Len(page.fetches)
    /\ page' = [page EXCEPT
                  !.fetches = Remove(@, k),
                  !.id = 0,
                  !.form = "empty",
                  !.loads = IF @ < MaxPending THEN @ + 1 ELSE @,
                  !.last = [kind |-> "answer"]]
    /\ UNCHANGED <<cars, clients, sellers, orders, seq, pc, local, tx, conn,
                   resp, pre, catalog, boot>>

\* fetch rejects (the server cannot be reached): the handler ends at the
\* await with the error and the form stays as it is.
submit_failed(k) ==
    /\ page # NoPage
    /\ k \in 1..Len(page.fetches)
    /\ page' = [page EXCEPT !.fetches = Remove(@, k),
                            !.last = [kind |-> "failed"]]
    /\ UNCHANGED <<cars, clients, sellers, orders, seq, pc, local, tx, conn,
                   resp, pre, catalog, boot>>

\* loadCars (loadClients, loadSellers) after its await: the table shows the
\* rows of the list.
load ==
    /\ page # NoPage
    /\ page.loads > 0
    /\ page' = [page EXCEPT !.loads = @ - 1,
                            !.rows = DOMAIN Tables[page.name]]
    /\ UNCHANGED <<cars, clients, sellers, orders, seq, pc, local, tx, conn,
                   resp, pre, catalog, boot>>

\* editCar(id) (editClient, editSeller): the button of a row is clicked and
\* the list is requested.
edit(id) ==
    /\ page # NoPage
    /\ id \in page.rows \ page.edits
    /\ page' = [page EXCEPT !.edits = @ \cup {id}]
    /\ UNCHANGED <<cars, clients, sellers, orders, seq, pc, local, tx, conn,
                   resp, pre, catalog, boot>>

\* editCar after its await: if the list has the row, the hidden field takes
\* its id and the form its values.
edit_fill(id) ==
    /\ page # NoPage
    /\ id \in page.edits
    /\ page' = IF id \in DOMAIN Tables[page.name]
               THEN [page EXCEPT !.edits = @ \ {id}, !.id = id,
                                 !.form = "filled",
                                 !.last = [kind |-> "edit"]]
               ELSE [page EXCEPT !.edits = @ \ {id}]
    /\ UNCHANGED <<cars, clients, sellers, orders, seq, pc, local, tx, conn,
                   resp, pre, catalog, boot>>

\* btnNew.onclick
btnNew ==
    /\ page # NoPage
    /\ page' = [page EXCEPT !.id = 0, !.form = "empty",
                            !.last = [kind |-> "new"]]
    /\ UNCHANGED <<cars, clients, sellers, orders, seq, pc, local, tx, conn,
                   resp, pre, catalog, boot>>

(* ---------- the UNIQUE constraint on cpf ---------- *)
\* Ids of the rows of table t, other than id, that hold cpf.
CpfRows(t, cpf, id) == {i \in DOMAIN t \ {id} : t[i].cpf = cpf}

\* Writing cpf into row id of tbl has to wait: an open transaction of another
\* request has written a row with this cpf, or holds the lock of the row that
\* has it.
UniqueWait(r, tbl, cpf, id) ==
    \E o \in Req \ {r} :
        \/ CpfRows(tx[o][tbl], cpf, id) # {}
        \/ CpfRows(Tables[tbl], cpf, id) \cap Written(o, tbl) # {}

\* Variant: the cpf column is not declared UNIQUE.
NotUnique(tbl, cpf, id) == FALSE

\* cpf VARCHAR(11) NOT NULL UNIQUE: another row of the table holds cpf.
UniqueViolation(tbl, cpf, id) == CpfRows(Tables[tbl], cpf, id) # {}

\* An exception that no handler catches: the framework answers 500.
ServerError == Error(500, "Internal Server Error")

(* ---------- clients ---------- *)
create_client(r, nome, cpf, data_nascimento) ==
    /\ seq.clients + Inserting("create_client_select")
         + Inserting("create_client_insert") < MaxClients
    /\ LET c == cpf_digits_or_400(cpf)
           d == parse_date_or_400(data_nascimento) IN
        /\ Arrive(r, [op |-> "create_client", nome |-> nome, cpf |-> cpf,
                      cpf_digits |-> c.value, dn |-> d.value, new_id |-> 0])
        /\ get_conn(r)
        /\ IF c.status # 200 THEN Raise(r, c.status, c.detail)
           ELSE IF d.status # 200 THEN Raise(r, d.status, d.detail)
           ELSE Goto(r, "create_client_select")
    /\ UNCHANGED <<cars, clients, sellers, orders, seq, tx,
                   catalog, boot, page>>

\* SELECT id FROM clients WHERE cpf = %s
create_client_select(r) ==
    /\ pc[r] = "create_client_select"
    /\ IF CpfRows(clients, local[r].cpf_digits, 0) # {}
       THEN Raise(r, 409, "CPF ja cadastrado.")
       ELSE Goto(r, "create_client_insert")
    /\ UNCHANGED <<cars, clients, sellers, orders, seq, local, tx, conn, pre,
                   catalog, boot, page>>

create_client_insert(r) ==
    /\ pc[r] = "create_client_insert"
    /\ ~UniqueWait(r, "clients", local[r].cpf_digits, 0)
    /\ LET new_id == seq.clients + 1 IN
        /\ seq' = [seq EXCEPT !.clients = new_id]
        /\ local' = [local EXCEPT ![r].new_id = new_id]
        /\ IF UniqueViolation("clients", local[r].cpf_digits, 0)
           THEN /\ resp' = [resp EXCEPT ![r] = ServerError]
                /\ pc' = [pc EXCEPT ![r] = "finally"]
                /\ UNCHANGED tx
           ELSE /\ tx' = [tx EXCEPT ![r].clients = new_id :>
                            [nome |-> strip(local[r].nome),
                             cpf |-> local[r].cpf_digits,
                             data_nascimento |-> local[r].dn]]
                /\ Goto(r, "create_client_commit")
    /\ UNCHANGED <<cars, clients, sellers, orders, conn, pre,
                   catalog, boot, page>>

create_client_commit(r) ==
    /\ pc[r] = "create_client_commit"
    /\ Commit(r)
    /\ resp' = [resp EXCEPT ![r] = Ok(local[r].new_id)]
    /\ pc' = [pc EXCEPT ![r] = "finally"]
    /\ UNCHANGED <<seq, local, conn, pre, catalog, boot, page>>

update_client(r, client_id, nome, cpf, data_nascimento) ==
    /\ LET c == cpf_digits_or_400(cpf)
           d == parse_date_or_400(data_nascimento) IN
        /\ Arrive(r, [op |-> "update_client", client_id |-> client_id,
                      nome |-> nome, cpf_digits |-> c.value, dn |-> d.value])
        /\ get_conn(r)
        /\ IF c.status # 200 THEN Raise(r, c.status, c.detail)
           ELSE IF d.status # 200 THEN Raise(r, d.status, d.detail)
           ELSE Goto(r, "update_client_select_id")
    /\ UNCHANGED <<cars, clients, sellers, orders, seq, tx,
                   catalog, boot, page>>

\* Variant: the cpf is looked up before the client is.
update_client_select_cpf_first(r) ==
    /\ pc[r] = "update_client_select_id"
    /\ IF CpfRows(clients, local[r].cpf_digits, local[r].client_id) # {}
       THEN Raise(r, 409, "CPF ja cadastrado em outro cliente.")
       ELSE IF local[r].client_id \notin DOMAIN clients
       THEN Raise(r, 404, "Cliente nao encontrado.")
       ELSE Goto(r, "update_client_select_cpf")
    /\ UNCHANGED <<cars, clients, sellers, orders, seq, local, tx, conn, pre,
                   catalog, boot, page>>

\* SELECT id FROM clients WHERE id = %s
update_client_select_id(r) ==
    /\ pc[r] = "update_client_select_id"
    /\ IF local[r].client_id \notin DOMAIN clients
       THEN Raise(r, 404, "Cliente nao encontrado.")
       ELSE Goto(r, "update_client_select_cpf")
    /\ UNCHANGED <<cars, clients, sellers, orders, seq, local, tx, conn, pre,
                   catalog, boot, page>>

\* Variant: the lookup does not leave out the client being updated.
update_client_select_any_cpf(r) ==
    /\ pc[r] = "update_client_select_cpf"
    /\ IF CpfRows(clients, local[r].cpf_digits, 0) # {}
       THEN Raise(r, 409, "CPF ja cadastrado em outro cliente.")
       ELSE Goto(r, "update_client_update")
    /\ UNCHANGED <<cars, clients, sellers, orders, seq, local, tx, conn, pre,
                   catalog, boot, page>>

\* Variant: the row is updated and committed before the cpf is looked up.
update_client_write_then_select(r) ==
    /\ pc[r] = "update_client_select_cpf"
    /\ clients' = [clients EXCEPT ![local[r].client_id] =
                      [nome |-> strip(local[r].nome),
                       cpf |-> local[r].cpf_digits,
                       data_nascimento |-> local[r].dn]]
    /\ IF CpfRows(clients, local[r].cpf_digits, local[r].client_id) # {}
       THEN Raise(r, 409, "CPF ja cadastrado em outro cliente.")
       ELSE Goto(r, "update_client_update")
    /\ UNCHANGED <<cars, sellers, orders, seq, local, tx, conn, pre,
                   catalog, boot, page>>

\* SELECT id FROM clients WHERE cpf = %s AND id <> %s
update_client_select_cpf(r) ==
    /\ pc[r] = "update_client_select_cpf"
    /\ IF CpfRows(clients, local[r].cpf_digits, local[r].client_id) # {}
       THEN Raise(r, 409, "CPF ja cadastrado em outro cliente.")
       ELSE Goto(r, "update_client_update")
    /\ UNCHANGED <<cars, clients, sellers, orders, seq, local, tx, conn, pre,
                   catalog, boot, page>>

update_client_update(r) ==
    /\ pc[r] = "update_client_update"
    /\ ~LockedByOther(r, "clients", local[r].client_id)
    /\ local[r].client_id \in DOMAIN clients
         => ~UniqueWait(r, "clients", local[r].cpf_digits, local[r].client_id)
    /\ IF local[r].client_id \notin DOMAIN clients
       THEN Goto(r, "update_client_commit") /\ UNCHANGED tx
       ELSE IF UniqueViolation("clients", local[r].cpf_digits, local[r].client_id)
       THEN /\ resp' = [resp EXCEPT ![r] = ServerError]
            /\ pc' = [pc EXCEPT ![r] = "finally"]
            /\ UNCHANGED tx
       ELSE /\ tx' = [tx EXCEPT ![r].clients = local[r].client_id :>
                        [nome |-> strip(local[r].nome),
                         cpf |-> local[r].cpf_digits,
                         data_nascimento |-> local[r].dn]]
            /\ Goto(r, "update_client_commit")
    /\ UNCHANGED <<cars, clients, sellers, orders, seq, local, conn, pre,
                   catalog, boot, page>>

update_client_commit(r) ==
    /\ pc[r] = "update_client_commit"
    /\ Commit(r)
    /\ resp' = [resp EXCEPT ![r] = Ok(0)]
    /\ pc' = [pc EXCEPT ![r] = "finally"]
    /\ UNCHANGED <<seq, local, conn, pre, catalog, boot, page>>

delete_client(r, client_id) ==
    /\ Arrive(r, [op |-> "delete_client", client_id |-> client_id])
    /\ get_conn(r)
    /\ Goto(r, "delete_client_delete")
    /\ UNCHANGED <<cars, clients, sellers, orders, seq, tx,
                   catalog, boot, page>>

\* Variant: a DELETE that removes no row is answered 404.
delete_client_delete_or_404(r) ==
    /\ pc[r] = "delete_client_delete"
    /\ ~LockedByOther(r, "clients", local[r].client_id)
    /\ IF local[r].client_id \in DOMAIN clients
       THEN /\ tx' = [tx EXCEPT ![r].deleted.clients = {local[r].client_id}]
            /\ Goto(r, "delete_client_commit")
       ELSE /\ Raise(r, 404, "Cliente nao encontrado.")
            /\ UNCHANGED tx
    /\ UNCHANGED <<cars, clients, sellers, orders, seq, local, conn, pre,
                   catalog, boot, page>>

delete_client_delete(r) ==
    /\ pc[r] = "delete_client_delete"
    /\ ~LockedByOther(r, "clients", local[r].client_id)
    /\ tx' = IF local[r].client_id \in DOMAIN clients
             THEN [tx EXCEPT ![r].deleted.clients = {local[r].client_id}]
             ELSE tx
    /\ Goto(r, "delete_client_commit")
    /\ UNCHANGED <<cars, clients, sellers, orders, seq, local, conn, pre,
                   catalog, boot, page>>

delete_client_commit(r) ==
    /\ pc[r] = "delete_client_commit"
    /\ Commit(r)
    /\ resp' = [resp EXCEPT ![r] = Ok(0)]
    /\ pc' = [pc EXCEPT ![r] = "finally"]
    /\ UNCHANGED <<seq, local, conn, pre, catalog, boot, page>>

(* ---------- sellers ---------- *)
create_seller(r, nome, email, cpf) ==
    /\ seq.sellers + Inserting("create_seller_select")
         + Inserting("create_seller_insert") < MaxSellers
    /\ LET c == cpf_digits_or_400(cpf)
           d == email_or_400(email) IN
        /\ Arrive(r, [op |-> "create_seller", nome |-> nome,
                      cpf_digits |-> c.value, email_norm |-> d.value, new_id |-> 0])
        /\ get_conn(r)
        /\ IF c.status # 200 THEN Raise(r, c.status, c.detail)
           ELSE IF d.status # 200 THEN Raise(r, d.status, d.detail)
           ELSE Goto(r, "create_seller_select")
    /\ UNCHANGED <<cars, clients, sellers, orders, seq, tx,
                   catalog, boot, page>>

\* Variant: the lookup also finds the cpf in the clients table.
create_seller_select_people(r) ==
    /\ pc[r] = "create_seller_select"
    /\ IF CpfRows(sellers, local[r].cpf_digits, 0) # {}
          \/ CpfRows(clients, local[r].cpf_digits, 0) # {}
       THEN Raise(r, 409, "CPF ja cadastrado para outro vendedor.")
       ELSE Goto(r, "create_seller_insert")
    /\ UNCHANGED <<cars, clients, sellers, orders, seq, local, tx, conn, pre,
                   catalog, boot, page>>

\* SELECT id FROM sellers WHERE cpf = %s
create_seller_select(r) ==
    /\ pc[r] = "create_seller_select"
    /\ IF CpfRows(sellers, local[r].cpf_digits, 0) # {}
       THEN Raise(r, 409, "CPF ja cadastrado para outro vendedor.")
       ELSE Goto(r, "create_seller_insert")
    /\ UNCHANGED <<cars, clients, sellers, orders, seq, local, tx, conn, pre,
                   catalog, boot, page>>

create_seller_insert(r) ==
    /\ pc[r] = "create_seller_insert"
    /\ ~UniqueWait(r, "sellers", local[r].cpf_digits, 0)
    /\ LET new_id == seq.sellers + 1 IN
        /\ seq' = [seq EXCEPT !.sellers = new_id]
        /\ local' = [local EXCEPT ![r].new_id = new_id]
        /\ IF UniqueViolation("sellers", local[r].cpf_digits, 0)
           THEN /\ resp' = [resp EXCEPT ![r] = ServerError]
                /\ pc' = [pc EXCEPT ![r] = "finally"]
                /\ UNCHANGED tx
           ELSE /\ tx' = [tx EXCEPT ![r].sellers = new_id :>
                            [nome |-> strip(local[r].nome),
                             cpf |-> local[r].cpf_digits,
                             email |-> local[r].email_norm]]
                /\ Goto(r, "create_seller_commit")
    /\ UNCHANGED <<cars, clients, sellers, orders, conn, pre,
                   catalog, boot, page>>

create_seller_commit(r) ==
    /\ pc[r] = "create_seller_commit"
    /\ Commit(r)
    /\ resp' = [resp EXCEPT ![r] = Ok(local[r].new_id)]
    /\ pc' = [pc EXCEPT ![r] = "finally"]
    /\ UNCHANGED <<seq, local, conn, pre, catalog, boot, page>>

update_seller(r, seller_id, nome, email, cpf) ==
    /\ LET c == cpf_digits_or_400(cpf)
           d == email_or_400(email) IN
        /\ Arrive(r, [op |-> "update_seller", seller_id |-> seller_id,
                      nome |-> nome, cpf_digits |-> c.value, email_norm |-> d.value])
        /\ get_conn(r)
        /\ IF c.status # 200 THEN Raise(r, c.status, c.detail)
           ELSE IF d.status # 200 THEN Raise(r, d.status, d.detail)
           ELSE Goto(r, "update_seller_select_id")
    /\ UNCHANGED <<cars, clients, sellers, orders, seq, tx,
                   catalog, boot, page>>

\* SELECT id FROM sellers WHERE id = %s
update_seller_select_id(r) ==
    /\ pc[r] = "update_seller_select_id"
    /\ IF local[r].seller_id \notin DOMAIN sellers
       THEN Raise(r, 404, "Vendedor nao encontrado.")
       ELSE Goto(r, "update_seller_select_cpf")
    /\ UNCHANGED <<cars, clients, sellers, orders, seq, local, tx, conn, pre,
                   catalog, boot, page>>

\* SELECT id FROM sellers WHERE cpf = %s AND id <> %s
update_seller_select_cpf(r) ==
    /\ pc[r] = "update_seller_select_cpf"
    /\ IF CpfRows(sellers, local[r].cpf_digits, local[r].seller_id) # {}
       THEN Raise(r, 409, "CPF ja cadastrado em outro vendedor.")
       ELSE Goto(r, "update_seller_update")
    /\ UNCHANGED <<cars, clients, sellers, orders, seq, local, tx, conn, pre,
                   catalog, boot, page>>

update_seller_update(r) ==
    /\ pc[r] = "update_seller_update"
    /\ ~LockedByOther(r, "sellers", local[r].seller_id)
    /\ local[r].seller_id \in DOMAIN sellers
         => ~UniqueWait(r, "sellers", local[r].cpf_digits, local[r].seller_id)
    /\ IF local[r].seller_id \notin DOMAIN sellers
       THEN Goto(r, "update_seller_commit") /\ UNCHANGED tx
       ELSE IF UniqueViolation("sellers", local[r].cpf_digits, local[r].seller_id)
       THEN /\ resp' = [resp EXCEPT ![r] = ServerError]
            /\ pc' = [pc EXCEPT ![r] = "finally"]
            /\ UNCHANGED tx
       ELSE /\ tx' = [tx EXCEPT ![r].sellers = local[r].seller_id :>
                        [nome |-> strip(local[r].nome),
                         cpf |-> local[r].cpf_digits,
                         email |-> local[r].email_norm]]
            /\ Goto(r, "update_seller_commit")
    /\ UNCHANGED <<cars, clients, sellers, orders, seq, local, conn, pre,
                   catalog, boot, page>>

update_seller_commit(r) ==
    /\ pc[r] = "update_seller_commit"
    /\ Commit(r)
    /\ resp' = [resp EXCEPT ![r] = Ok(0)]
    /\ pc' = [pc EXCEPT ![r] = "finally"]
    /\ UNCHANGED <<seq, local, conn, pre, catalog, boot, page>>

delete_seller(r, seller_id) ==
    /\ Arrive(r, [op |-> "delete_seller", seller_id |-> seller_id])
    /\ get_conn(r)
    /\ Goto(r, "delete_seller_delete")
    /\ UNCHANGED <<cars, clients, sellers, orders, seq, tx,
                   catalog, boot, page>>

delete_seller_delete(r) ==
    /\ pc[r] = "delete_seller_delete"
    /\ ~LockedByOther(r, "sellers", local[r].seller_id)
    /\ tx' = IF local[r].seller_id \in DOMAIN sellers
             THEN [tx EXCEPT ![r].deleted.sellers = {local[r].seller_id}]
             ELSE tx
    /\ Goto(r, "delete_seller_commit")
    /\ UNCHANGED <<cars, clients, sellers, orders, seq, local, conn, pre,
                   catalog, boot, page>>

delete_seller_commit(r) ==
    /\ pc[r] = "delete_seller_commit"
    /\ Commit(r)
    /\ resp' = [resp EXCEPT ![r] = Ok(0)]
    /\ pc' = [pc EXCEPT ![r] = "finally"]
    /\ UNCHANGED <<seq, local, conn, pre, catalog, boot, page>>

(* ---------- specifications ---------- *)
\* No other request is in flight.
Alone(r) == \A o \in Req \ {r} : pc[o] = "idle"

\* Spec: the shop from the empty store, requests served one at a time (a
\* request arrives when no other is in flight). One seller and one client can
\* be registered; cars are created, updated, deleted and sold.
Next ==
    \E r \in Req :
        \/ Alone(r) /\ create_seller(r, Nome, EmailOk, CpfA)
        \/ Alone(r) /\ create_client(r, Nome, CpfA, DateOk)
        \/ \E form \in CarForms : Alone(r) /\ create_car(r, form)
        \/ \E car_id \in CarIds, form \in CarForms :
              Alone(r) /\ update_car(r, car_id, form)
        \/ \E car_id \in CarIds : Alone(r) /\ delete_car(r, car_id)
        \/ \E seller_id \in {1, 2}, client_id \in {1, 2}, car_id \in CarIds,
              quantity \in QuantityInputs :
              Alone(r) /\ create_order(r, seller_id, client_id, car_id, quantity)
        \/ create_car_insert(r) \/ create_car_commit(r)
        \/ update_car_select(r) \/ update_car_update(r) \/ update_car_commit(r)
        \/ delete_car_delete(r) \/ delete_car_commit(r)
        \/ create_client_select(r) \/ create_client_insert(r)
        \/ create_client_commit(r)
        \/ create_seller_select(r) \/ create_seller_insert(r)
        \/ create_seller_commit(r)
        \/ create_order_select_seller(r) \/ create_order_select_client(r)
        \/ create_order_select_car(r) \/ create_order_insert(r)
        \/ create_order_update(r) \/ create_order_commit(r)
        \/ conn_close(r) \/ respond(r)

Spec == Init /\ [][Next]_vars

\* The store after create_seller, create_client and create_car have each
\* succeeded once: seller 1, client 1 and car 1 with InitStock units.
StockedCar ==
    CarRow([brand |-> Toyota, model |-> "Corolla", year |-> 2020,
            color |-> Omitted(""), mileage_km |-> Omitted(0), price |-> 1000,
            quantity |-> Field(InitStock), status |-> Field("Ativo")])

InitSales ==
    /\ cars = 1 :> StockedCar
    /\ clients = 1 :> [nome |-> strip(Nome), cpf |-> cpf_digits(CpfA),
                       data_nascimento |-> parse_date_or_400(DateOk).value]
    /\ sellers = 1 :> [nome |-> strip(Nome), cpf |-> cpf_digits(CpfA),
                       email |-> email_or_400(EmailOk).value]
    /\ orders = <<>>
    /\ seq = [cars |-> 1, clients |-> 1, sellers |-> 1, orders |-> 0]
    /\ pc = [r \in Req |-> "idle"]
    /\ local = [r \in Req |-> NoLocal]
    /\ tx = [r \in Req |-> NoTx]
    /\ conn = {}
    /\ resp = [r \in Req |-> NoResp]
    /\ pre = [r \in Req |-> NoTables]
    /\ catalog = Provisioned
    /\ boot = Serving
    /\ page = NoPage

\* SpecSales: sales from the stocked store, requests served one at a time;
\* the car is repriced, restocked and deleted between sales.
NextSales ==
    \E r \in Req :
        \/ \E seller_id \in {1, 2}, client_id \in {1, 2}, car_id \in {1, 2},
              quantity \in QuantityInputs :
              Alone(r) /\ create_order(r, seller_id, client_id, car_id, quantity)
        \/ \E car_id \in {1, 2}, form \in CarForms :
              Alone(r) /\ update_car(r, car_id, form)
        \/ \E car_id \in {1, 2} : Alone(r) /\ delete_car(r, car_id)
        \/ update_car_select(r) \/ update_car_update(r) \/ update_car_commit(r)
        \/ delete_car_delete(r) \/ delete_car_commit(r)
        \/ create_order_select_seller(r) \/ create_order_select_client(r)
        \/ create_order_select_car(r) \/ create_order_insert(r)
        \/ create_order_update(r) \/ create_order_commit(r)
        \/ conn_close(r) \/ respond(r)

SpecSales == InitSales /\ [][NextSales]_vars

\* SpecOrders: concurrent orders for the car of the stocked store; the steps
\* of the two requests interleave freely.
NextOrders ==
    \E r \in Req :
        \/ \E quantity \in 1..MaxQty : create_order(r, 1, 1, 1, quantity)
        \/ create_order_select_seller(r) \/ create_order_select_client(r)
        \/ create_order_select_car(r) \/ create_order_insert(r)
        \/ create_order_update(r) \/ create_order_commit(r)
        \/ conn_close(r) \/ respond(r)

SpecOrders == InitSales /\ [][NextOrders]_vars

\* SpecPeople: the client and seller registries from the empty store,
\* requests served one at a time.
NextPeople ==
    \E r \in Req :
        \/ \E nome \in NomeInputs, cpf \in CpfInputs \cup {CpfSuper},
              dn \in DateInputs :
              Alone(r) /\ create_client(r, nome, cpf, dn)
        \/ \E id \in ClientIds, cpf \in CpfInputs, dn \in DateInputs :
              Alone(r) /\ update_client(r, id, Nome, cpf, dn)
        \/ \E id \in ClientIds : Alone(r) /\ delete_client(r, id)
        \/ \E nome \in NomeInputs, cpf \in CpfInputs, email \in EmailInputs :
              Alone(r) /\ create_seller(r, nome, email, cpf)
        \/ \E id \in SellerIds, cpf \in CpfInputs, email \in EmailInputs :
              Alone(r) /\ update_seller(r, id, Nome, email, cpf)
        \/ \E id \in SellerIds : Alone(r) /\ delete_seller(r, id)
        \/ create_client_select(r) \/ create_client_insert(r)
        \/ create_client_commit(r)
        \/ update_client_select_id(r) \/ update_client_select_cpf(r)
        \/ update_client_update(r) \/ update_client_commit(r)
        \/ delete_client_delete(r) \/ delete_client_commit(r)
        \/ create_seller_select(r) \/ create_seller_insert(r)
        \/ create_seller_commit(r)
        \/ update_seller_select_id(r) \/ update_seller_select_cpf(r)
        \/ update_seller_update(r) \/ update_seller_commit(r)
        \/ delete_seller_delete(r) \/ delete_seller_commit(r)
        \/ conn_close(r) \/ respond(r)

SpecPeople == Init /\ [][NextPeople]_vars

\* SpecClients: concurrent requests on the client registry.
NextClients ==
    \E r \in Req :
        \/ \E cpf \in {CpfA, CpfB} : create_client(r, Nome, cpf, DateOk)
        \/ \E id \in ClientIds, cpf \in {CpfA, CpfB} :
              update_client(r, id, Nome, cpf, DateOk)
        \/ \E id \in ClientIds : delete_client(r, id)
        \/ create_client_select(r) \/ create_client_insert(r)
        \/ create_client_commit(r)
        \/ update_client_select_id(r) \/ update_client_select_cpf(r)
        \/ update_client_update(r) \/ update_client_commit(r)
        \/ delete_client_delete(r) \/ delete_client_commit(r)
        \/ conn_close(r) \/ respond(r)

SpecClients == Init /\ [][NextClients]_vars

\* SpecShop: the whole shop from the stocked store, requests served one at a
\* time: orders are placed and listed while the car is updated and cars,
\* clients and sellers are registered, changed and deleted.
ShopCpfs == {CpfA, CpfB, CpfShort}
ShopForms == {f \in CarForms : f.price = 1000 /\ f.quantity = Field(1)}

NextShop ==
    \E r \in Req :
        \/ \E seller_id \in {1, 2}, client_id \in {1, 2}, car_id \in {1, 2},
              quantity \in 0..MaxQty :
              Alone(r) /\ create_order(r, seller_id, client_id, car_id, quantity)
        \/ Alone(r) /\ list_orders(r)
        \/ \E car_id \in {1, 2}, form \in ShopForms :
              Alone(r) /\ update_car(r, car_id, form)
        \/ \E car_id \in {1, 2} : Alone(r) /\ delete_car(r, car_id)
        \/ \E cpf \in ShopCpfs, dn \in DateInputs :
              Alone(r) /\ create_client(r, Nome, cpf, dn)
        \/ \E id \in {1, 2}, cpf \in ShopCpfs :
              Alone(r) /\ update_client(r, id, Nome, cpf, DateOk)
        \/ \E id \in {1, 2} : Alone(r) /\ delete_client(r, id)
        \/ \E id \in {1, 2} : Alone(r) /\ delete_seller(r, id)
        \/ create_order_select_seller(r) \/ create_order_select_client(r)
        \/ create_order_select_car(r) \/ create_order_insert(r)
        \/ create_order_update(r) \/ create_order_commit(r)
        \/ list_orders_select(r)
        \/ update_car_select(r) \/ update_car_update(r) \/ update_car_commit(r)
        \/ delete_car_delete(r) \/ delete_car_commit(r)
        \/ create_client_select(r) \/ create_client_insert(r)
        \/ create_client_commit(r)
        \/ update_client_select_id(r) \/ update_client_select_cpf(r)
        \/ update_client_update(r) \/ update_client_commit(r)
        \/ delete_client_delete(r) \/ delete_client_commit(r)
        \/ delete_seller_delete(r) \/ delete_seller_commit(r)
        \/ conn_close(r) \/ respond(r)

SpecShop == InitSales /\ [][NextShop]_vars

\* SpecBoot: the process is started, and started again, against a server
\* that holds none, some or all of the database, the schema and the tables,
\* with rows in the tables that exist.
BootCatalogs ==
    {c \in [databases : {{"postgres"}, {"postgres", TargetDb}},
            schemas : {{}, {SchemaName}},
            tables : [cars : {NoTable, DDL.cars},
                      clients : {NoTable, DDL.clients},
                      sellers : {NoTable, DDL.sellers},
                      orders : {NoTable, DDL.orders}]] :
        /\ TargetDb \notin c.databases => c.schemas = {}
        /\ c.schemas = {} => \A k \in 1..Len(TableNames) :
                                 c.tables[TableNames[k]] = NoTable}

StoredClient ==
    [nome |-> strip(Nome), cpf |-> cpf_digits(CpfA),
     data_nascimento |-> parse_date_or_400(DateOk).value]
StoredSeller ==
    [nome |-> strip(Nome), cpf |-> cpf_digits(CpfA),
     email |-> email_or_400(EmailOk).value]
StoredOrder ==
    [seller_id |-> 1, client_id |-> 1, car_id |-> 1, quantity |-> 1,
     total_value |-> TotalValue(StockedCar.price, 1)]

RowsIn(columns, row) == IF columns = NoTable THEN {<<>>} ELSE {<<>>, 1 :> row}

InitBoot ==
    /\ catalog \in BootCatalogs
    /\ cars \in RowsIn(catalog.tables.cars, StockedCar)
    /\ clients \in RowsIn(catalog.tables.clients, StoredClient)
    /\ sellers \in RowsIn(catalog.tables.sellers, StoredSeller)
    /\ orders \in RowsIn(catalog.tables.orders, StoredOrder)
    /\ seq = [cars |-> Cardinality(DOMAIN cars),
              clients |-> Cardinality(DOMAIN clients),
              sellers |-> Cardinality(DOMAIN sellers),
              orders |-> Cardinality(DOMAIN orders)]
    /\ pc = [r \in Req |-> "idle"]
    /\ local = [r \in Req |-> NoLocal]
    /\ tx = [r \in Req |-> NoTx]
    /\ conn = {}
    /\ resp = [r \in Req |-> NoResp]
    /\ pre = [r \in Req |-> NoTables]
    /\ boot = [Serving EXCEPT !.pc = "ensure_database"]
    /\ page = NoPage

NextBoot ==
    \/ ensure_database
    \/ ensure_database_create
    \/ ensure_schema
    \/ ensure_tables
    \/ restart

SpecBoot == InitBoot /\ [][NextBoot]_vars

\* SpecCars: the car catalog from the empty store, requests served one at a
\* time: cars of several brands are created, listed by brand, updated and
\* deleted.
BrandForms ==
    [brand : BrandInputs, model : {"Corolla"}, year : {2020},
     color : {Omitted("")}, mileage_km : {Omitted(0)}, price : PriceInputs,
     quantity : {Field(MaxQty), Omitted(0)},
     status : {Field(s) : s \in StatusInputs}]

NextCars ==
    \E r \in Req :
        \/ \E form \in BrandForms : Alone(r) /\ create_car(r, form)
        \/ \E brand \in FilterInputs : Alone(r) /\ list_cars(r, brand)
        \/ \E car_id \in CarIds, form \in BrandForms :
              Alone(r) /\ update_car(r, car_id, form)
        \/ \E car_id \in CarIds : Alone(r) /\ delete_car(r, car_id)
        \/ create_car_insert(r) \/ create_car_commit(r)
        \/ list_cars_select(r)
        \/ update_car_select(r) \/ update_car_update(r) \/ update_car_commit(r)
        \/ delete_car_delete(r) \/ delete_car_commit(r)
        \/ conn_close(r) \/ respond(r)

SpecCars == Init /\ [][NextCars]_vars

\* SpecLot: the stocked store with its one car repriced, restocked and set
\* active or inactive between orders; requests are served one at a time.
LotForms ==
    [brand : {Toyota}, model : {"Corolla"}, year : {2020},
     color : {Omitted("")}, mileage_km : {Omitted(0)}, price : PriceInputs,
     quantity : {Field(InitStock)},
     status : {Field(s) : s \in StatusValues}]

NextLot ==
    \E r \in Req :
        \/ \E quantity \in 0..(InitStock + 1) :
              Alone(r) /\ create_order(r, 1, 1, 1, quantity)
        \/ \E form \in LotForms : Alone(r) /\ update_car(r, 1, form)
        \/ Alone(r) /\ list_orders(r)
        \/ create_order_select_seller(r) \/ create_order_select_client(r)
        \/ create_order_select_car(r) \/ create_order_insert(r)
        \/ create_order_update(r) \/ create_order_commit(r)
        \/ update_car_select(r) \/ update_car_update(r) \/ update_car_commit(r)
        \/ list_orders_select(r)
        \/ conn_close(r) \/ respond(r)

SpecLot == InitSales /\ [][NextLot]_vars

\* SpecWriters: every kind of request from the empty store, one at a time:
\* people are registered, changed and removed, cars are created, restocked
\* and sold, and the lists are read.
WriterForms ==
    {f \in CarForms : f.price = 1000 /\ f.quantity \in {Field(1), Field(MaxQty)}}
WriterCpfs == {CpfA, CpfShort}

NextWriters ==
    \E r \in Req :
        \/ \E form \in WriterForms : Alone(r) /\ create_car(r, form)
        \/ \E form \in WriterForms : Alone(r) /\ update_car(r, 1, form)
        \/ \E quantity \in 0..MaxQty : Alone(r) /\ create_order(r, 1, 1, 1, quantity)
        \/ \E cpf \in WriterCpfs : Alone(r) /\ create_client(r, Nome, cpf, DateOk)
        \/ \E cpf \in WriterCpfs : Alone(r) /\ update_client(r, 1, Nome, cpf, DateOk)
        \/ Alone(r) /\ delete_client(r, 2)
        \/ \E cpf \in WriterCpfs : Alone(r) /\ create_seller(r, Nome, EmailOk, cpf)
        \/ \E cpf \in WriterCpfs : Alone(r) /\ update_seller(r, 1, Nome, EmailOk, cpf)
        \/ Alone(r) /\ delete_seller(r, 2)
        \/ Alone(r) /\ list_cars(r, Omitted(<<>>))
        \/ Alone(r) /\ list_orders(r)
        \/ create_car_insert(r) \/ create_car_commit(r)
        \/ update_car_select(r) \/ update_car_update(r) \/ update_car_commit(r)
        \/ create_order_select_seller(r) \/ create_order_select_client(r)
        \/ create_order_select_car(r) \/ create_order_insert(r)
        \/ create_order_update(r) \/ create_order_commit(r)
        \/ create_client_select(r) \/ create_client_insert(r)
        \/ create_client_commit(r)
        \/ update_client_select_id(r) \/ update_client_select_cpf(r)
        \/ update_client_update(r) \/ update_client_commit(r)
        \/ delete_client_delete(r) \/ delete_client_commit(r)
        \/ create_seller_select(r) \/ create_seller_insert(r)
        \/ create_seller_commit(r)
        \/ update_seller_select_id(r) \/ update_seller_select_cpf(r)
        \/ update_seller_update(r) \/ update_seller_commit(r)
        \/ delete_seller_delete(r) \/ delete_seller_commit(r)
        \/ list_cars_select(r) \/ list_orders_select(r)
        \/ conn_close(r) \/ respond(r)

SpecWriters == Init /\ [][NextWriters]_vars

\* SpecPage: one of the three pages is open on the stocked store; the user
\* types, submits, edits rows and starts new records while the answers of
\* the server arrive in any order.
NextPage ==
    \/ \E name \in PageNames : open_page(name)
    \/ \E form \in {"filled", "invalid"} : input(form)
    \/ submit_invalid
    \/ submit
    \/ \E k \in 1..MaxPending, status \in HttpStatuses : submit_answered(k, status)
    \/ \E k \in 1..MaxPending : submit_failed(k)
    \/ load
    \/ \E id \in RowIds : edit(id)
    \/ \E id \in RowIds : edit_fill(id)
    \/ btnNew

SpecPage == InitSales /\ [][NextPage]_vars

\* SpecStart: one start of the process on a store in any state of
\* provisioning, with connections that may fail, and the requests that are
\* served once the application exists.
NextStart ==
    \/ ensure_database
    \/ ensure_database_create
    \/ ensure_schema
    \/ ensure_tables
    \/ connect_fails
    \/ \E r \in Req :
          \/ Alone(r) /\ list_orders(r)
          \/ list_orders_select(r)
          \/ conn_close(r) \/ respond(r)

SpecStart == InitBoot /\ [][NextStart]_vars

(* ---------- properties ---------- *)
\* Request r has run handler op to its response.
Finished(r, op) == local[r].op = op /\ pc[r] \in {"finally", "done"}

RECURSIVE SumQuantity(_, _)
SumQuantity(t, ids) ==
    IF ids = {} THEN 0
    ELSE LET i == CHOOSE i \in ids : TRUE IN
         t[i].quantity + SumQuantity(t, ids \ {i})

\* C1 (SpecSales). When create_order succeeds and no other request
\* interleaves, the car's stored quantity is its quantity before the request
\* minus the ordered quantity, exactly one order row is new (the one whose id
\* the response carries, the others are as before), and remaining_stock in
\* the response is the new stored quantity.
C1_OrderDecrementsStock ==
    \A r \in Req :
        Finished(r, "create_order") /\ resp[r].status = 200 =>
            LET c == local[r].car_id IN
            /\ c \in DOMAIN cars /\ c \in DOMAIN pre[r].cars
            /\ cars[c].quantity = pre[r].cars[c].quantity - local[r].quantity
            /\ resp[r].id \notin DOMAIN pre[r].orders
            /\ DOMAIN orders = DOMAIN pre[r].orders \cup {resp[r].id}
            /\ \A i \in DOMAIN pre[r].orders : orders[i] = pre[r].orders[i]
            /\ resp[r].remaining_stock = cars[c].quantity

\* A successful order for more than one unit.
C1_Witness ==
    \E r \in Req :
        /\ Finished(r, "create_order") /\ resp[r].status = 200
        /\ local[r].quantity = 2 /\ resp[r].remaining_stock = 0

\* The seller, client and car of r's order existed when r arrived.
OrderRefsExist(r) ==
    /\ local[r].seller_id \in DOMAIN pre[r].sellers
    /\ local[r].client_id \in DOMAIN pre[r].clients
    /\ local[r].car_id \in DOMAIN pre[r].cars

\* C2 as stated: with existing seller, client and car, create_order answers
\* 400 exactly when the quantity is greater than the stock.
C2_AsStated ==
    \A r \in Req :
        Finished(r, "create_order") /\ OrderRefsExist(r) =>
            (resp[r].status = 400
                <=> local[r].quantity > pre[r].cars[local[r].car_id].quantity)

\* C2 (SpecSales), amended. With existing seller, client and car and a
\* positive quantity, create_order answers 400 exactly when the quantity is
\* greater than the stock, and then no table has changed; otherwise it
\* succeeds, and an order for the whole stock leaves 0.
C2_StockCheck ==
    \A r \in Req :
        Finished(r, "create_order") /\ OrderRefsExist(r)
        /\ local[r].quantity > 0 =>
            LET c == local[r].car_id
                stock == pre[r].cars[c].quantity IN
            /\ resp[r].status = 400 <=> local[r].quantity > stock
            /\ local[r].quantity > stock => Tables = pre[r] /\ tx[r] = NoTx
            /\ local[r].quantity <= stock => resp[r].status = 200
            /\ local[r].quantity = stock => cars[c].quantity = 0

\* An order for the whole stock has succeeded.
C2_Witness ==
    \E r \in Req :
        /\ Finished(r, "create_order") /\ OrderRefsExist(r)
        /\ local[r].quantity > 0
        /\ local[r].quantity = pre[r].cars[local[r].car_id].quantity
        /\ resp[r].status = 200

\* The orders past the stock check.
PastCheck == {"create_order_insert", "create_order_update", "create_order_commit"}

\* C3 (SpecOrders). Every order past the stock check read a stock that
\* covered its quantity, whatever the other request does; the stored quantity
\* of the car is negative only when two orders are stored whose quantities
\* together exceed the stock the car had. (That such a state is reached is
\* C3_Oversold.)
C3_OversoldOnlyByRace ==
    /\ \A r \in Req :
          pc[r] \in PastCheck => local[r].car_quantity >= local[r].quantity
    /\ cars[1].quantity < 0 =>
          /\ Cardinality(DOMAIN orders) >= 2
          /\ SumQuantity(orders, DOMAIN orders) > InitStock

\* Both orders are stored and the car's stored quantity is negative.
C3_Oversold ==
    /\ cars[1].quantity < 0
    /\ Cardinality(DOMAIN orders) = 2
    /\ \A i \in DOMAIN orders : orders[i].quantity <= InitStock
    /\ SumQuantity(orders, DOMAIN orders) > InitStock

\* C4 (Spec). Every stored car's quantity is a non-negative integer.
C4_QuantityNonNegative ==
    \A c \in DOMAIN cars : cars[c].quantity >= 0

\* C5 (SpecSales). A stored order keeps its total_value in every step, and
\* the total_value of an order that a step stores is the price its car has at
\* that moment times the order's quantity.
C5_TotalSnapshot ==
    [][/\ \A i \in DOMAIN orders :
             i \in DOMAIN orders' /\ orders'[i].total_value = orders[i].total_value
       /\ \A i \in DOMAIN orders' \ DOMAIN orders :
             /\ orders'[i].car_id \in DOMAIN cars
             /\ orders'[i].total_value
                  = cars[orders'[i].car_id].price * orders'[i].quantity]_vars

\* An order for two units whose car has been repriced since: the stored total
\* is no longer the car's price times the quantity.
C5_Witness ==
    \E i \in DOMAIN orders :
        /\ orders[i].car_id \in DOMAIN cars
        /\ orders[i].quantity = 2
        /\ orders[i].total_value = 200
        /\ cars[orders[i].car_id].price = 251

\* C6 (SpecSales). create_order with a positive quantity answers 404 for the
\* first of seller, client, car that does not exist, in that order, and
\* answers 404 only when one of them does not exist.
C6_ForeignKeyOrder ==
    \A r \in Req :
        Finished(r, "create_order") /\ local[r].quantity > 0 =>
            LET noSeller == local[r].seller_id \notin DOMAIN pre[r].sellers
                noClient == local[r].client_id \notin DOMAIN pre[r].clients
                noCar    == local[r].car_id \notin DOMAIN pre[r].cars IN
            /\ noSeller => resp[r] = Error(404, "Vendedor nao encontrado.")
            /\ ~noSeller /\ noClient
                 => resp[r] = Error(404, "Cliente nao encontrado.")
            /\ ~noSeller /\ ~noClient /\ noCar
                 => resp[r] = Error(404, "Carro nao encontrado.")
            /\ resp[r].status = 404 => noSeller \/ noClient \/ noCar

\* Seller, client and car are all missing and the seller is the one reported.
C6_Witness ==
    \E r \in Req :
        /\ Finished(r, "create_order") /\ local[r].quantity > 0
        /\ local[r].seller_id \notin DOMAIN pre[r].sellers
        /\ local[r].client_id \notin DOMAIN pre[r].clients
        /\ local[r].car_id \notin DOMAIN pre[r].cars
        /\ resp[r].detail = "Vendedor nao encontrado."

\* C7 (SpecSales). create_order with quantity <= 0 is answered 400 at once:
\* it opens no connection, runs no statement, and leaves every table as it
\* was, whether or not the ids it names exist.
C7_NonPositiveQuantity ==
    \A r \in Req :
        local[r].op = "create_order" /\ local[r].quantity <= 0 =>
            /\ pc[r] = "done"
            /\ resp[r] = Error(400, "Quantidade deve ser positiva.")
            /\ r \notin conn
            /\ tx[r] = NoTx
            /\ Tables = pre[r]

\* A quantity of zero with ids that do not exist.
C7_Witness ==
    \E r \in Req :
        /\ local[r].op = "create_order" /\ local[r].quantity = 0
        /\ local[r].seller_id \notin DOMAIN sellers
        /\ local[r].client_id \notin DOMAIN clients
        /\ local[r].car_id \notin DOMAIN cars
        /\ resp[r].status = 400

\* C8 (SpecClients). No two stored clients have the same cpf, in every state
\* that create_client, update_client and delete_client requests reach, run
\* one after the other or interleaved.
C8_ClientCpfUnique ==
    \A i, j \in DOMAIN clients : i # j => clients[i].cpf # clients[j].cpf

\* Two clients are stored and a request that would have duplicated a cpf has
\* been refused.
C8_Witness ==
    /\ Cardinality(DOMAIN clients) = 2
    /\ \E r \in Req :
          /\ pc[r] = "finally" /\ resp[r].status = 409
          /\ local[r].op \in {"create_client", "update_client"}
          /\ \E i \in DOMAIN clients : clients[i].cpf = local[r].cpf_digits

\* The cpf and the date (client) or e-mail (seller) of r's request are valid.
ValidClientInput(r) == Len(local[r].cpf_digits) = CPF_LEN /\ local[r].dn # <<>>
ValidSellerInput(r) ==
    Len(local[r].cpf_digits) = CPF_LEN /\ local[r].email_norm # <<>>

\* Some row of table t other than row id holds cpf.
HeldByOther(t, cpf, id) == \E j \in DOMAIN t : j # id /\ t[j].cpf = cpf

\* C9 (SpecPeople). update_client on an existing client with valid input
\* answers 409 exactly when another client holds the normalized cpf, and
\* otherwise succeeds and stores that cpf; an update that keeps the client's
\* own cpf succeeds.
C9_UpdateClientConflict ==
    \A r \in Req :
        Finished(r, "update_client") /\ ValidClientInput(r)
        /\ local[r].client_id \in DOMAIN pre[r].clients =>
            LET id == local[r].client_id
                held == HeldByOther(pre[r].clients, local[r].cpf_digits, id) IN
            /\ resp[r].status = 409 <=> held
            /\ ~held => /\ resp[r].status = 200
                        /\ clients[id].cpf = local[r].cpf_digits
            /\ local[r].cpf_digits = pre[r].clients[id].cpf => resp[r].status = 200

\* An update to the cpf of another client has been refused.
C9_Witness ==
    \E r \in Req :
        /\ Finished(r, "update_client") /\ resp[r].status = 409
        /\ HeldByOther(pre[r].clients, local[r].cpf_digits, local[r].client_id)

\* C10 (SpecPeople). A seller request with valid input answers 409 exactly
\* when another seller holds the cpf, a client request exactly when another
\* client holds it: what the other table holds changes nothing.
C10_SeparateCpfDomains ==
    \A r \in Req :
        /\ Finished(r, "create_seller") /\ ValidSellerInput(r) =>
              /\ resp[r].status = 409
                   <=> HeldByOther(pre[r].sellers, local[r].cpf_digits, 0)
              /\ resp[r].status \in {200, 409}
        /\ Finished(r, "update_seller") /\ ValidSellerInput(r)
           /\ local[r].seller_id \in DOMAIN pre[r].sellers =>
              /\ resp[r].status = 409
                   <=> HeldByOther(pre[r].sellers, local[r].cpf_digits,
                                   local[r].seller_id)
              /\ resp[r].status \in {200, 409}
        /\ Finished(r, "create_client") /\ ValidClientInput(r) =>
              /\ resp[r].status = 409
                   <=> HeldByOther(pre[r].clients, local[r].cpf_digits, 0)
              /\ resp[r].status \in {200, 409}
        /\ Finished(r, "update_client") /\ ValidClientInput(r)
           /\ local[r].client_id \in DOMAIN pre[r].clients =>
              /\ resp[r].status = 409
                   <=> HeldByOther(pre[r].clients, local[r].cpf_digits,
                                   local[r].client_id)
              /\ resp[r].status \in {200, 409}

\* A seller has been created with the cpf that a client already held, and
\* both rows are stored.
C10_Witness ==
    \E r \in Req :
        /\ pc[r] = "done" /\ local[r].op = "create_seller"
        /\ resp[r].status = 200
        /\ HeldByOther(pre[r].clients, local[r].cpf_digits, 0)
        /\ \E i \in DOMAIN clients, j \in DOMAIN sellers :
              clients[i].cpf = sellers[j].cpf

\* The statuses of the HTTP errors that the handlers raise themselves.
Refused == {400, 404, 409}

\* C11 (SpecShop). A request answered 400, 404 or 409 has written nothing:
\* every table is as it was when the request arrived, and its transaction
\* holds no write that a commit could store.
C11_RefusedChangesNothing ==
    \A r \in Req :
        pc[r] \in {"finally", "done"} /\ resp[r].status \in Refused =>
            /\ Tables = pre[r]
            /\ tx[r] = NoTx

\* update_client has been refused the cpf of another client, after an order
\* has been stored.
C11_Witness ==
    \E r \in Req :
        /\ Finished(r, "update_client") /\ resp[r].status = 409
        /\ local[r].client_id \in DOMAIN clients
        /\ orders # <<>>

\* C12 (SpecShop). The seller, the client and the car of every stored order
\* exist, in every state.
C12_OrdersReferenceExisting ==
    \A i \in DOMAIN orders :
        /\ orders[i].seller_id \in DOMAIN sellers
        /\ orders[i].client_id \in DOMAIN clients
        /\ orders[i].car_id \in DOMAIN cars

\* The ids of the entries of a list, in the order of the list.
EntryIds(result) == [k \in 1..Len(result) |-> result[k].id]

\* C13 (SpecShop). list_orders returns one entry for every stored order, by
\* descending id.
C13_ListsEveryOrder ==
    \A r \in Req :
        Finished(r, "list_orders") =>
            EntryIds(local[r].result) = Descending(DOMAIN pre[r].orders)

\* C14 (SpecShop). No step removes a stored order or changes one of its
\* fields.
C14_OrdersAppendOnly ==
    [][\A i \in DOMAIN orders :
          i \in DOMAIN orders' /\ orders'[i] = orders[i]]_vars

\* Two orders are stored, and the car, the client and the seller of one of
\* them have been deleted since.
C14_Witness ==
    /\ Cardinality(DOMAIN orders) >= 2
    /\ \E i \in DOMAIN orders :
          /\ orders[i].car_id \notin DOMAIN cars
          /\ orders[i].client_id \notin DOMAIN clients
          /\ orders[i].seller_id \notin DOMAIN sellers

\* The tables other than cars are as they were when r arrived.
OthersAsBefore(r) ==
    /\ clients = pre[r].clients /\ sellers = pre[r].sellers
    /\ orders = pre[r].orders

\* C15 (SpecSales). update_car on an id with no car answers 404 and changes
\* nothing; delete_car on an id with no car answers 200 and changes nothing;
\* delete_car leaves the store without that car and otherwise as it was, so
\* that a second delete_car of the same id finds no car and changes nothing.
C15_MissingCar ==
    \A r \in Req :
        /\ Finished(r, "update_car") /\ local[r].car_id \notin DOMAIN pre[r].cars
              => resp[r] = Error(404, "Car not found") /\ Tables = pre[r]
        /\ Finished(r, "delete_car") /\ local[r].car_id \notin DOMAIN pre[r].cars
              => resp[r] = Ok(0) /\ Tables = pre[r]
        /\ Finished(r, "delete_car") =>
              /\ resp[r] = Ok(0)
              /\ DOMAIN cars = DOMAIN pre[r].cars \ {local[r].car_id}
              /\ \A c \in DOMAIN cars : cars[c] = pre[r].cars[c]
              /\ OthersAsBefore(r)

\* delete_car has been answered for the id of a car that an earlier
\* delete_car removed.
C15_Witness ==
    \E r \in Req :
        /\ pc[r] = "done" /\ local[r].op = "delete_car"
        /\ local[r].car_id <= seq.cars
        /\ local[r].car_id \notin DOMAIN pre[r].cars
        /\ resp[r].status = 200

\* Request r is a delete that is finished, for an id with no row.
DeletedMissing(r) ==
    \/ Finished(r, "delete_car") /\ local[r].car_id \notin DOMAIN pre[r].cars
    \/ Finished(r, "delete_client")
          /\ local[r].client_id \notin DOMAIN pre[r].clients
    \/ Finished(r, "delete_seller")
          /\ local[r].seller_id \notin DOMAIN pre[r].sellers

\* C16 as stated: a delete for an id with no row is answered 404.
C16_DeleteMissingNotFound ==
    \A r \in Req : DeletedMissing(r) => resp[r].status = 404

\* C16 (SpecShop), amended. delete_car, delete_client and delete_seller for
\* an id with no row are answered 200 and change nothing.
C16_DeleteMissingOk ==
    \A r \in Req : DeletedMissing(r) => resp[r] = Ok(0) /\ Tables = pre[r]

\* delete_client has been answered 200 for an id with no row.
C16_Witness ==
    \E r \in Req :
        /\ pc[r] = "done" /\ local[r].op = "delete_client"
        /\ local[r].client_id \notin DOMAIN pre[r].clients
        /\ resp[r].status = 200

\* C17 (SpecSales). update_car without the quantity field is refused and
\* leaves the stored cars as they were.
C17_UpdateCarRequiresAll ==
    \A r \in Req :
        Finished(r, "update_car") /\ ~local[r].form.quantity.given =>
            resp[r].status # 200 /\ cars = pre[r].cars

\* C18 (SpecClients). A request that is not in its handler holds no open
\* connection, however the handler ended: with its result, with an HTTP error
\* of its own or with a database error.
C18_ConnectionsClosed ==
    \A r \in Req : pc[r] \in {"idle", "done"} => r \notin conn

\* A request has ended with a database error and no connection is open.
C18_Witness ==
    /\ conn = {}
    /\ \E r \in Req : pc[r] = "done" /\ resp[r] = ServerError

\* C19 (SpecBoot). From the second start on, provisioning does not fail and,
\* at every step, the databases, schemas, tables, rows and sequences are as
\* the previous run left them; a run that completes leaves the store
\* provisioned.
C19_SecondRunChangesNothing ==
    /\ boot.pc = "serving" => catalog = Provisioned
    /\ boot.run >= 2 =>
          /\ boot.pc # "failed"
          /\ catalog = Provisioned
          /\ Snapshot = boot.before

\* The second run has completed on a store that holds rows.
C19_Witness ==
    /\ boot.run = 2 /\ boot.pc = "serving"
    /\ cars # <<>> /\ orders # <<>>

\* The decimal digits of s, in their order.
RECURSIVE OnlyDigits(_)
OnlyDigits(s) ==
    IF s = <<>> THEN <<>>
    ELSE IF Head(s) \in DecimalDigits THEN <<Head(s)>> \o OnlyDigits(Tail(s))
    ELSE OnlyDigits(Tail(s))

\* C20 (SpecPeople). create_client is answered 400, and stores nothing, when
\* the digits of the cpf it was sent are not 11, and is not refused for the
\* cpf when they are 11; when it succeeds the new client's cpf is those
\* digits; every stored client cpf is 11 digits.
C20_CpfNormalized ==
    /\ \A i \in DOMAIN clients :
          /\ Len(clients[i].cpf) = CPF_LEN
          /\ \A k \in 1..Len(clients[i].cpf) :
                clients[i].cpf[k] \in DecimalDigits
    /\ \A r \in Req :
          Finished(r, "create_client") =>
              LET d == OnlyDigits(local[r].cpf) IN
              /\ Len(d) # CPF_LEN => resp[r].status = 400 /\ Tables = pre[r]
              /\ Len(d) = CPF_LEN
                    => resp[r] # Error(400, "CPF deve conter 11 digitos.")
              /\ resp[r].status = 200 =>
                    /\ resp[r].id \notin DOMAIN pre[r].clients
                    /\ clients[resp[r].id].cpf = d

\* C21 (SpecCars). list_cars filtered by the brand of a stored car lists that
\* car with its stored price (the price it was sent, to the cent) and
\* quantity; the entries are the cars whose brand contains the filter,
\* whatever the case of the letters, by descending id.
C21_CarRoundTrip ==
    \A r \in Req :
        Finished(r, "list_cars") /\ local[r].brand.given =>
            LET b == local[r].brand.value
                result == local[r].result IN
            /\ \A c \in DOMAIN pre[r].cars :
                  pre[r].cars[c].brand = b =>
                      \E k \in 1..Len(result) :
                          /\ result[k].id = c
                          /\ result[k].price = pre[r].cars[c].price
                          /\ result[k].quantity = pre[r].cars[c].quantity
            /\ EntryIds(result)
                 = Descending({c \in DOMAIN pre[r].cars :
                                 BrandContains(pre[r].cars[c].brand, b)})

\* C22 (SpecLot). The car_price of an entry of list_orders is the price of
\* the car when the list is made, and total_value is the value stored with
\* the order: after a change of price the list shows the new unit price next
\* to the unchanged total.
C22_CurrentPrice ==
    \A r \in Req :
        Finished(r, "list_orders") =>
            \A k \in 1..Len(local[r].result) :
                LET e == local[r].result[k] IN
                /\ e.car_price = pre[r].cars[e.car_id].price
                /\ e.total_value = pre[r].orders[e.id].total_value

\* An order listed after the price of its car has changed.
C22_Witness ==
    \E r \in Req :
        /\ Finished(r, "list_orders")
        /\ \E k \in 1..Len(local[r].result) :
              LET e == local[r].result[k] IN
              e.car_price * e.quantity # e.total_value

\* What a step may do to the cars table.
QuantityWriters ==
    /\ \A c \in DOMAIN cars \cap DOMAIN cars' :
          cars'[c].quantity # cars[c].quantity =>
              \E r \in Req :
                  /\ pc[r] \in {"update_car_commit", "create_order_commit"}
                  /\ pc'[r] = "finally"
                  /\ local[r].op \in {"update_car", "create_order"}
                  /\ resp'[r].status = 200
    /\ \A c \in DOMAIN cars' \ DOMAIN cars :
          \E r \in Req :
              /\ pc[r] = "create_car_commit" /\ pc'[r] = "finally"
              /\ resp'[r].status = 200
    /\ \A r \in Req :
          (/\ pc[r] # pc'[r]
           /\ \/ local[r].op \notin {"create_car", "update_car", "create_order",
                                     "delete_car", "none"}
              \/ resp'[r].status \in Refused)
              => cars' = cars

\* C23 (SpecWriters). The quantity of a car changes only when an update_car
\* or a create_order commits, and a car appears only when a create_car
\* commits; each of these requests is answered 200. Every step of a client,
\* seller or list request, and every step of a request that is refused,
\* leaves the quantity of every car as it was.
C23_QuantityWriters == [][QuantityWriters]_vars

\* A refused order, a registered client and a listing have each been answered
\* while the car kept the stock that an earlier order left.
C23_Witness ==
    /\ 1 \in DOMAIN cars /\ 1 \in DOMAIN orders /\ 1 \in DOMAIN clients
    /\ cars[1].quantity = MaxQty - 1
    /\ \E r \in Req :
          /\ Finished(r, "create_order")
          /\ resp[r].status = 400

\* C24 (SpecOrders). Whatever the interleaving of the create_order requests
\* for a car that no update_car or delete_car touches, the car's quantity plus
\* the quantities of its committed orders is the quantity it started with.
C24_StockConserved ==
    /\ 1 \in DOMAIN cars
    /\ cars[1].quantity
         + SumQuantity(orders, {i \in DOMAIN orders : orders[i].car_id = 1})
       = InitStock

\* Two orders are committed, both made by requests that read the whole
\* initial stock before either had committed.
C24_Witness ==
    /\ Cardinality(DOMAIN orders) = 2
    /\ \A r \in Req :
          /\ Finished(r, "create_order") /\ resp[r].status = 200
          /\ local[r].car_quantity = InitStock

\* The step in which request r commits its order and answers.
OrderCommits(r) == pc[r] = "create_order_commit" /\ pc'[r] = "finally"

\* C25 as stated (SpecOrders). In every interleaving the remaining_stock that
\* a successful create_order returns is the car's stored quantity right after
\* the request's commit.
C25_RemainingIsStored ==
    [][\A r \in Req :
          OrderCommits(r) =>
              resp'[r].remaining_stock = cars'[local[r].car_id].quantity]_vars

\* C25 (SpecOrders). The remaining_stock that a successful create_order
\* returns is the stock that the request read at its stock check less the
\* quantity ordered; it is the car's stored quantity right after the commit
\* when the stored quantity was still the one read, that is when no other
\* request committed a change of it in between.
C25_RemainingFromRead ==
    [][\A r \in Req :
          OrderCommits(r) =>
              /\ resp'[r].status = 200
              /\ resp'[r].remaining_stock
                   = local[r].car_quantity - local[r].quantity
              /\ cars[local[r].car_id].quantity = local[r].car_quantity =>
                    resp'[r].remaining_stock
                        = cars'[local[r].car_id].quantity]_vars

\* Two racing orders of one unit have both been answered with the same
\* remaining_stock, one unit more than what the car has left.
C25_Witness ==
    /\ \A r \in Req :
          /\ Finished(r, "create_order") /\ resp[r].status = 200
          /\ resp[r].remaining_stock = InitStock - 1
    /\ cars[1].quantity = InitStock - 2

\* C26 (SpecClients). When two create_client requests with the same
\* normalized cpf run together, at most one row with that cpf is stored and
\* the request that loses is answered 409, not with another error.
C26_LoserGetsConflict ==
    /\ \A i, j \in DOMAIN clients : i # j => clients[i].cpf # clients[j].cpf
    /\ \A r, o \in Req :
          (/\ r # o
           /\ local[r].op = "create_client" /\ local[o].op = "create_client"
           /\ local[r].cpf_digits = local[o].cpf_digits
           /\ Finished(r, "create_client"))
              => resp[r].status \in {200, 409}

\* The status that the checks of an update answer when they are made in the
\* order: cpf, second field (date or e-mail), existence of the row, cpf held
\* by another row. first and second are the normalized values, <<>> when the
\* field is invalid.
StatusInOrder(first, second, t, id) ==
    IF first = <<>> \/ second = <<>> THEN 400
    ELSE IF id \notin DOMAIN t THEN 404
    ELSE IF HeldByOther(t, first, id) THEN 409
    ELSE 200

\* C27 (SpecPeople). update_client and update_seller check in this order: the
\* cpf and then the date or e-mail (400), then that the row exists (404),
\* then that no other row holds the cpf (409).
C27_UpdateCheckOrder ==
    \A r \in Req :
        /\ Finished(r, "update_client") =>
              /\ resp[r].status
                   = StatusInOrder(local[r].cpf_digits, local[r].dn,
                                   pre[r].clients, local[r].client_id)
              /\ local[r].cpf_digits = <<>> =>
                    resp[r].detail = "CPF deve conter 11 digitos."
        /\ Finished(r, "update_seller") =>
              /\ resp[r].status
                   = StatusInOrder(local[r].cpf_digits, local[r].email_norm,
                                   pre[r].sellers, local[r].seller_id)
              /\ local[r].cpf_digits = <<>> =>
                    resp[r].detail = "CPF deve conter 11 digitos."

\* An update of a client that does not exist, to a cpf that a stored client
\* holds, has been answered 404.
C27_Witness ==
    \E r \in Req :
        /\ Finished(r, "update_client") /\ resp[r].status = 404
        /\ HeldByOther(pre[r].clients, local[r].cpf_digits, local[r].client_id)

Submits == page # NoPage /\ page' # NoPage
           /\ Len(page'.fetches) = Len(page.fetches) + 1
Sent == page'.fetches[Len(page'.fetches)]

\* The step in which the submit handler goes on after an answer.
Answered == page # NoPage /\ page' # NoPage /\ page'.last.kind = "answer"
            /\ Len(page'.fetches) = Len(page.fetches) - 1

\* C29 as stated (SpecPage). Once a submission has passed validation, the
\* next submission is sent as POST, never as PUT of the record that was being
\* edited, unless a record has been chosen for editing in between.
C29_NextIsPost ==
    [][Submits /\ page.last.kind \in {"submit", "answer"}
          => Sent.method = "POST"]_vars

\* What the form does when it is answered and when it is submitted next.
ResetWhenAnswered ==
    /\ Answered => page'.id = 0 /\ page'.form = "empty"
    /\ Submits /\ page.last.kind = "answer" => Sent.method = "POST"
    /\ Submits /\ page.last.kind = "submit" =>
          \E k \in 1..Len(page.fetches) : page.fetches[k] = Sent

\* C29 (SpecPage). When the request of a submission is answered, whatever the
\* status, the id field is emptied and the form is reset, so a submission
\* made after the answer, with no record chosen for editing in between, is
\* sent as POST; a submission made while the first is unanswered is sent once
\* more as PUT of the same record.
C29_ResetWhenAnswered == [][ResetWhenAnswered]_vars

\* An update has been answered and the next submission went out as POST,
\* while on the way there a second PUT of the record was sent before the
\* answer to the first.
C29_Witness ==
    /\ page # NoPage
    /\ page.last.kind = "submit"
    /\ page.id = 0
    /\ page.fetches = <<[method |-> "PUT", id |-> 1], [method |-> "POST", id |-> 0]>>

\* The order of the steps of a start: each step is followed by the next one
\* or by the end of the process, and nothing follows the end of the process.
StartOrder ==
    /\ boot.pc = "ensure_database" =>
          boot'.pc \in {"ensure_database", "ensure_database_create", "failed"}
    /\ boot.pc = "ensure_database_create" =>
          boot'.pc \in {"ensure_database_create", "ensure_schema", "failed"}
    /\ boot.pc = "ensure_schema" =>
          boot'.pc \in {"ensure_schema", "ensure_tables", "failed"}
    /\ boot.pc = "ensure_tables" =>
          boot'.pc \in {"ensure_tables", "serving", "failed"}
    /\ boot.pc = "serving" => boot'.pc = "serving" /\ catalog' = catalog
    /\ boot.pc = "failed" => UNCHANGED vars

\* What each step finds done when it begins, and when handlers run.
StartDone ==
    /\ boot.pc \in {"ensure_schema", "ensure_tables", "serving"} =>
          TargetDb \in catalog.databases
    /\ boot.pc \in {"ensure_tables", "serving"} =>
          SchemaName \in catalog.schemas
    /\ boot.pc = "serving" => catalog = Provisioned
    /\ \A r \in Req : pc[r] # "idle" => boot.pc = "serving"

\* C30 (SpecStart). At startup the database, the schema and the tables are
\* ensured in this order, each step complete before the next begins and all
\* three before a handler runs; a step that fails ends the start, and no
\* later step and no handler runs after it.
C30_StartupOrder == []StartDone /\ [][StartOrder]_vars

\* The start has failed after the database was created: no schema and no
\* table has been made and no request is being served.
C30_Witness ==
    /\ boot.pc = "failed"
    /\ ~boot.exists /\ TargetDb \in catalog.databases
    /\ catalog.schemas = {}
    /\ \A r \in Req : pc[r] = "idle"

====
